---- MODULE Spec2Model ----
(***************************************************************************)
(* A model of gridsim: the padded SquareGrid of src/src/square_grid.rs     *)
(* with its parallel step (compute, egress, flow exchange, ingress), the   *)
(* index-based Grid of src/src/lib.rs and the multi-tile grid of           *)
(* src/src/multigrid.rs.                                                   *)
(*                                                                         *)
(* A simulation (the Sim trait) is user code.  Two simulations are used:   *)
(*   "Sym"  the free simulation: every callback returns the term that      *)
(*          names the call and its arguments, and the initial cells are    *)
(*          distinct atoms.  Two results that are equal under "Sym" are    *)
(*          equal under every deterministic simulation and initial grid.   *)
(*   "Gol"  Conway's Game of Life of src/tests/gol.rs.                     *)
(*                                                                         *)
(* A parallel pass (par_azip) is modelled by two workers.  The items of    *)
(* the pass, in row-major order, are split in two slices at an arbitrary   *)
(* point; each worker goes through its slice in order and the two workers  *)
(* interleave arbitrarily, so that every pair of items is run in both      *)
(* orders.                                                                 *)
(***************************************************************************)
EXTENDS Integers, Sequences, FiniteSets, TLC

\* Largest interior height and width of a SquareGrid under the free simulation.
MaxH == 2
MaxW == 3
\* Number of steps a Game-of-Life SquareGrid, and of cycles a Grid, is run for.
MaxSteps == 2
\* Largest number of tiles of a torus of tiles.
MaxTiles == 2
\* Largest width and height of a tile.
MaxTileSide == 2
\* Largest number of items of an iterator given to new_iter or from_iter.
MaxItems == 9
\* The values a neighbourhood is built from are 0 .. MaxVal.
MaxVal == 1
\* The usize values a direction is converted from are 0 .. MaxIndex.
MaxIndex == 8
\* The centered coordinates given to new_true_coords are within -MaxCoord .. MaxCoord
\* on both axes, and at most MaxCoords of them are given.
MaxCoord == 1
MaxCoords == 2

VARIABLES
    sim,        \* which simulation the grid runs
    h, w,       \* dimensions of original_cells
    orig,       \* original_cells, indexed (y, x) from 0
    pc,         \* where the SquareGrid is: "new", "no_grid", "idle", a phase, "aborted"
    cells,      \* SquareGrid.cells, the padded array, indexed (y, x) from 0
    cells0,     \* the padded array as it was when the current step began
    diffs,      \* the local diffs of step_parallel
    flows,      \* the local flows of perform_egress / perform_ingress
    consumed,   \* per flow entry: "none", "live", "taken", "dropped", "double";
                \* for the SquareGrid of grid.rs, per diff and per move slot
    egressOut,  \* per position: the array returned by its egress call
    ingressIn,  \* per position: the array passed to its ingress call
    pass,       \* index of the exchange pass, 0..3
    split,      \* number of items of the pass given to worker 1
    cur,        \* cur[k]: number of items worker k has finished
    dead,       \* workers stopped by a failed callback
    panicked,   \* the phase in which a callback failed, or "none"
    fault,      \* "none", or the kind of failed access
    reordered,  \* whether an item ran in this step before an item that precedes it
    steps,      \* number of completed steps
    \* Grid (lib.rs)
    gpc,        \* where the Grid is: "off", "idle", "step", "update", "panicked"
    gw, gh,     \* Grid.width, Grid.height
    gcells,     \* Grid.cells, indexed from 0
    gcells0,    \* Grid.cells as they were when the current cycle began
    gdiffs,     \* Grid.diffs
    gout,       \* the diffs collected so far by step / step_par
    gpar,       \* whether the current cycle is cycle_par
    build,      \* "debug": arithmetic overflow panics; "release": it wraps
    gcycles,    \* number of completed cycles
    gmodes,     \* which of cycle (FALSE) and cycle_par (TRUE) have been called
    \* VonNeumannMultiSquareGrid (multigrid.rs), one per tile
    mshape,     \* numbers of tile columns and tile rows of the torus
    mw, mh,     \* width and height of every tile
    mcells,     \* per tile: cells, indexed from 0
    mstate,     \* per tile: "sync_cells", "panicked", "io_error"; "off" if unused
    mpos,       \* per tile: number of values sync_cells has written
    chan,       \* per tile and direction: the values written to that out channel
    mops,       \* per tile: the channel operations of its cycle, in order
    mnbr,       \* per tile and direction: neighbor_cells
    \* A call of a function that has no state of its own
    fpc,        \* "off", "call" (the arguments are chosen) or "done"
    fin,        \* the function called and its arguments
    fout        \* what the call returned, or that it panicked

sgVars == <<sim, h, w, orig, pc, cells, cells0, diffs, flows, consumed,
            egressOut, ingressIn, pass, split, cur, dead, panicked, fault,
            reordered, steps>>

lgVars == <<gpc, gw, gh, gcells, gcells0, gdiffs, gout, gpar, build, gcycles,
            gmodes>>

mgVars == <<mshape, mw, mh, mcells, mstate, mpos, chan, mops, mnbr>>

fnVars == <<fpc, fin, fout>>

\* What belongs to the SquareGrid alone.
sqOnly == <<h, w, orig, pc, cells, cells0, diffs, flows, consumed, egressOut,
            ingressIn, pass, dead, panicked, fault, steps>>

vars == <<sgVars, lgVars, mgVars, fnVars>>

----------------------------------------------------------------------------
(* The Sim<Neumann> trait.                                                 *)

Dirs == 0 .. 7

CellPadding(s) == IF s = "Gol" THEN FALSE ELSE <<"cell_padding">>
DiffPadding(s) == IF s = "Gol" THEN FALSE ELSE <<"diff_padding">>
FlowPadding(s) == IF s = "Gol" THEN <<"unit">> ELSE <<"flow_padding">>

\* Number of TRUE entries of a 3x3 window.
CountTrue(win) ==
    Cardinality({rc \in (0 .. 2) \X (0 .. 2) : win[rc[1]][rc[2]]})

\* A rule that forgets that the count includes the centre cell.
GolComputeNeighboursOnly(win) ==
    LET n == CountTrue(win)
    IN  IF win[1][1] THEN n \in 2 .. 3 ELSE n = 3

GolCompute(win) ==
    LET n == CountTrue(win)
    IN  IF win[1][1] THEN n \in 3 .. 4 ELSE n = 3

Compute(s, win) ==
    IF s = "Gol" THEN GolCompute(win) ELSE <<"compute", win>>

\* egress: the new value of the cell and the eight flows it returns.
Egress(s, cell, dwin) ==
    IF s = "Gol"
    THEN [cell |-> dwin[1][1], flows |-> [d \in Dirs |-> <<"unit">>]]
    ELSE [cell |-> <<"egress", cell, dwin>>,
          flows |-> [d \in Dirs |-> <<"flow", d, cell, dwin>>]]

Ingress(s, cell, fl) ==
    IF s = "Gol" THEN cell ELSE <<"ingress", cell, fl>>

----------------------------------------------------------------------------
(* Arrays.                                                                 *)

Pos(hh, ww) == (0 .. hh + 1) \X (0 .. ww + 1)

\* The slice s![1..-1, 1..-1] of a (hh+2) x (ww+2) array.
InSlice(hh, ww, p) == p[1] \in 1 .. hh /\ p[2] \in 1 .. ww

\* Item k (from 1) of the slice s![1..-1, 1..-1], as its index in the slice.
SliceIndex(ww, k) == <<(k - 1) \div ww, (k - 1) % ww>>

\* Item k (from 1) of the whole padded array.
PaddedIndex(ww, k) == <<(k - 1) \div (ww + 2), (k - 1) % (ww + 2)>>

\* A view that starts at the first row and column of the array.
SliceFromOrigin(arr, dim) ==
    [p \in (0 .. dim[1] - 3) \X (0 .. dim[2] - 3) |-> arr[p]]

\* slice(s![1..-1, 1..-1]) of an array of dimensions dim: entry (y, x) of the
\* view is entry (y + 1, x + 1) of the array.
Slice(arr, dim) ==
    [p \in (0 .. dim[1] - 3) \X (0 .. dim[2] - 3) |-> arr[<<p[1] + 1, p[2] + 1>>]]

\* A write of v to entry p of slice_mut(s![1..-1, 1..-1]).
SliceMutWrite(arr, p, v) == [arr EXCEPT ![<<p[1] + 1, p[2] + 1>>] = v]

\* windows((3, 3)): the window of index ix has its top left corner at ix.
WindowCells(ix) == {<<ix[1] + r, ix[2] + c>> : r \in 0 .. 2, c \in 0 .. 2}

\* A window with its two axes mixed up.
WindowTransposed(arr, ix) ==
    [r \in 0 .. 2 |-> [c \in 0 .. 2 |-> arr[<<ix[1] + c, ix[2] + r>>]]]

Window(arr, ix) ==
    [r \in 0 .. 2 |-> [c \in 0 .. 2 |-> arr[<<ix[1] + r, ix[2] + c>>]]]

\* A count of chunks that keeps the incomplete last chunk.
ChunkCountCeil(n) == (n + 1) \div 2

\* exact_chunks_mut((2, 2)) of an axis of length n: incomplete chunks are left out.
ChunkCount(n) == n \div 2

\* Offsets that never move the blocks along the second axis.
PassOffsetRepeated(p) == <<p \div 2, 0>>

\* Offsets of the four exchange passes: (0..2).cartesian_product(0..2).
PassOffset(p) == <<p \div 2, p % 2>>

NumChunks(hh, ww, p) ==
    ChunkCount(hh + 2 - PassOffset(p)[1]) * ChunkCount(ww + 2 - PassOffset(p)[2])

\* Blocks that are one cell apart along the second axis, so that they overlap.
ChunkCornerOverlapping(hh, ww, p, k) ==
    LET nx == ChunkCount(ww + 2 - PassOffset(p)[2])
    IN  <<PassOffset(p)[1] + 2 * ((k - 1) \div nx),
          PassOffset(p)[2] + ((k - 1) % nx)>>

\* Top left corner, in the padded array, of chunk k (from 1) of pass p.
ChunkCorner(hh, ww, p, k) ==
    LET nx == ChunkCount(ww + 2 - PassOffset(p)[2])
    IN  <<PassOffset(p)[1] + 2 * ((k - 1) \div nx),
          PassOffset(p)[2] + 2 * ((k - 1) % nx)>>

ChunkCells(tl) ==
    {tl, <<tl[1], tl[2] + 1>>, <<tl[1] + 1, tl[2]>>, <<tl[1] + 1, tl[2] + 1>>}

\* A swap that stores one of the two flows only.
SwapFlowOneWay(fl, p, i, q, j) ==
    [fl EXCEPT ![q][j] = fl[p][i]]

\* mem::swap of slot i of the flows at p with slot j of the flows at q.
SwapFlow(fl, p, i, q, j) ==
    [fl EXCEPT ![p][i] = fl[q][j], ![q][j] = fl[p][i]]

\* An exchange whose vertical swap takes the wrong slot of the upper cell.
ExchangeChunkWrongSlot(fl, tl) ==
    LET top_left == tl
        top_right == <<tl[1], tl[2] + 1>>
        bottom_left == <<tl[1] + 1, tl[2]>>
        bottom_right == <<tl[1] + 1, tl[2] + 1>>
        f1 == SwapFlow(fl, bottom_left, 0, bottom_right, 4)
        f2 == SwapFlow(f1, top_right, 2, bottom_right, 6)
        f3 == SwapFlow(f2, top_left, 7, bottom_right, 3)
    IN  SwapFlow(f3, top_right, 5, bottom_left, 1)

\* exchange_chunk on the chunk whose top left corner is tl.
ExchangeChunk(fl, tl) ==
    LET top_left == tl
        top_right == <<tl[1], tl[2] + 1>>
        bottom_left == <<tl[1] + 1, tl[2]>>
        bottom_right == <<tl[1] + 1, tl[2] + 1>>
        f1 == SwapFlow(fl, bottom_left, 0, bottom_right, 4)
        f2 == SwapFlow(f1, top_right, 6, bottom_right, 2)
        f3 == SwapFlow(f2, top_left, 7, bottom_right, 3)
    IN  SwapFlow(f3, top_right, 5, bottom_left, 1)

----------------------------------------------------------------------------
(* Workers of a parallel pass.                                             *)

Workers == {1, 2}

\* Number of items of the pass the grid is in.
NumItems ==
    CASE pc \in {"compute", "egress"} -> h * w
      [] pc = "exchange" -> NumChunks(h, w, pass)
      [] pc = "ingress" -> (h + 2) * (w + 2)
      [] gpc \in {"step", "update"} -> gw * gh
      [] OTHER -> 0

\* Whether worker k has an item left, and which (from 1).
HasItem(k) ==
    /\ k \notin dead
    /\ IF k = 1 THEN cur[1] < split ELSE cur[2] < NumItems - split

NextItem(k) == IF k = 1 THEN cur[1] + 1 ELSE split + cur[2] + 1

AllDone == cur[1] = split /\ cur[2] = NumItems - split

Advance(k) ==
    /\ cur' = [cur EXCEPT ![k] = @ + 1]
    /\ reordered' = (reordered \/ (k = 2 /\ cur[1] < split))

\* The fork of a pass of n items.
Fork(n) ==
    /\ split' \in 0 .. n
    /\ cur' = [k \in Workers |-> 0]

----------------------------------------------------------------------------
(* SquareGrid (square_grid.rs).                                            *)

NoArray == <<>>

\* cells.dim()
Dim == <<h + 2, w + 2>>

\* A test of perform_ingress that takes the last row and column for cells.
NotPaddingInclusive(dim, p) ==
    /\ 1 <= p[1] /\ p[1] <= dim[1] - 1
    /\ 1 <= p[2] /\ p[2] <= dim[2] - 1

\* The test of perform_ingress: (1..h-1).contains(&y) && (1..w-1).contains(&x),
\* where (h, w) = self.cells.dim().
NotPadding(dim, p) ==
    /\ 1 <= p[1] /\ p[1] < dim[1] - 1
    /\ 1 <= p[2] /\ p[2] < dim[2] - 1

\* A grid is run for MaxSteps steps under "Gol".  Under the free simulation the
\* initial grid is arbitrary, so one step from it stands for every step.
StepLimit == IF sim = "Gol" THEN MaxSteps ELSE 1

\* The Grid of lib.rs is not used.
LibOff ==
    /\ gpc = "off"
    /\ gw = 0
    /\ gh = 0
    /\ gcells = NoArray
    /\ gcells0 = NoArray
    /\ gdiffs = NoArray
    /\ gout = NoArray
    /\ gpar = FALSE
    /\ build = "release"
    /\ gcycles = 0
    /\ gmodes = {}

\* No tile is used.
MultiOff ==
    /\ mshape = <<0, 0>>
    /\ mw = 0
    /\ mh = 0
    /\ mcells = NoArray
    /\ mstate = NoArray
    /\ mpos = NoArray
    /\ chan = NoArray
    /\ mops = NoArray
    /\ mnbr = NoArray

\* No function is called.
FnOff ==
    /\ fpc = "off"
    /\ fin = NoArray
    /\ fout = NoArray

\* The SquareGrid is not used.
SquareOff ==
    /\ h = 0
    /\ w = 0
    /\ orig = NoArray
    /\ pc = "off"
    /\ cells = NoArray
    /\ cells0 = NoArray
    /\ diffs = NoArray
    /\ flows = NoArray
    /\ consumed = NoArray
    /\ egressOut = NoArray
    /\ ingressIn = NoArray
    /\ pass = 0
    /\ dead = {}
    /\ panicked = "none"
    /\ fault = "none"
    /\ steps = 0

NoWorkers ==
    /\ split = 0
    /\ cur = [k \in Workers |-> 0]
    /\ reordered = FALSE

InitGrid(s, hh, ww, o) ==
    /\ LibOff
    /\ MultiOff
    /\ FnOff
    /\ sim = s
    /\ h = hh
    /\ w = ww
    /\ orig = o
    /\ pc = "new"
    /\ cells = NoArray
    /\ cells0 = NoArray
    /\ diffs = NoArray
    /\ flows = NoArray
    /\ consumed = NoArray
    /\ egressOut = NoArray
    /\ ingressIn = NoArray
    /\ pass = 0
    /\ split = 0
    /\ cur = [k \in Workers |-> 0]
    /\ dead = {}
    /\ panicked = "none"
    /\ fault = "none"
    /\ reordered = FALSE
    /\ steps = 0

\* A constructor without the assertion on the dimensions.
NewNoAssert ==
    /\ pc = "new"
    /\ cells' = [p \in Pos(h, w) |->
                    IF InSlice(h, w, p)
                    THEN orig[<<p[1] - 1, p[2] - 1>>]
                    ELSE CellPadding(sim)]
    /\ pc' = "idle"
    /\ UNCHANGED <<lgVars, mgVars, fnVars>>
    /\ UNCHANGED <<sim, h, w, orig, cells0, diffs, flows, consumed, egressOut,
                   ingressIn, pass, split, cur, dead, panicked, fault, reordered,
                   steps>>

\* SquareGrid::new
New ==
    /\ pc = "new"
    /\ IF h >= 1 /\ w >= 1
       THEN /\ cells' = [p \in Pos(h, w) |->
                            IF InSlice(h, w, p)
                            THEN orig[<<p[1] - 1, p[2] - 1>>]
                            ELSE CellPadding(sim)]
            /\ pc' = "idle"
       ELSE /\ cells' = NoArray
            /\ pc' = "no_grid"
    /\ UNCHANGED <<lgVars, mgVars, fnVars>>
    /\ UNCHANGED <<sim, h, w, orig, cells0, diffs, flows, consumed, egressOut,
                   ingressIn, pass, split, cur, dead, panicked, fault, reordered,
                   steps>>

\* step_parallel is entered; compute_diffs allocates the diffs.
BeginStep ==
    /\ pc = "idle"
    /\ steps < StepLimit
    /\ cells0' = cells
    /\ diffs' = [p \in DOMAIN cells |-> DiffPadding(sim)]
    /\ egressOut' = NoArray
    /\ ingressIn' = NoArray
    /\ consumed' = NoArray
    /\ pc' = "compute"
    /\ Fork(h * w)
    /\ reordered' = FALSE
    /\ UNCHANGED <<lgVars, mgVars, fnVars>>
    /\ UNCHANGED <<sim, h, w, orig, cells, flows, pass, dead, panicked, fault,
                   steps>>

\* A compute pass that also stores each diff in the cell it was computed for.
ComputeAtInPlace(k) ==
    /\ pc = "compute"
    /\ HasItem(k)
    /\ LET ix == SliceIndex(w, NextItem(k))
           p == <<ix[1] + 1, ix[2] + 1>>
       IN  /\ diffs' = [diffs EXCEPT ![p] = Compute(sim, Window(cells, ix))]
           /\ cells' = [cells EXCEPT ![p] = Compute(sim, Window(cells, ix))]
    /\ Advance(k)
    /\ UNCHANGED <<lgVars, mgVars, fnVars>>
    /\ UNCHANGED <<sim, h, w, orig, pc, cells0, flows, consumed, egressOut,
                   ingressIn, pass, split, dead, panicked, fault, steps>>

\* One item of the par_azip of compute_diffs.
ComputeAt(k) ==
    /\ pc = "compute"
    /\ HasItem(k)
    /\ LET ix == SliceIndex(w, NextItem(k))
           p == <<ix[1] + 1, ix[2] + 1>>
       IN  IF WindowCells(ix) \subseteq DOMAIN cells
           THEN /\ diffs' = [diffs EXCEPT ![p] = Compute(sim, Window(cells, ix))]
                /\ UNCHANGED <<pc, fault>>
           ELSE /\ fault' = "oob"
                /\ pc' = "aborted"
                /\ UNCHANGED diffs
    /\ Advance(k)
    /\ UNCHANGED <<lgVars, mgVars, fnVars>>
    /\ UNCHANGED <<sim, h, w, orig, cells, cells0, flows, consumed, egressOut,
                   ingressIn, pass, split, dead, panicked, steps>>

\* A compute_diffs that returns while items of its pass are still to run.
JoinComputeEarly ==
    /\ pc = "compute"
    /\ panicked = "none"
    /\ flows' = [p \in DOMAIN cells |-> [d \in Dirs |-> FlowPadding(sim)]]
    /\ consumed' = [p \in DOMAIN cells |-> "live"]
    /\ pc' = "egress"
    /\ Fork(h * w)
    /\ UNCHANGED <<lgVars, mgVars, fnVars>>
    /\ UNCHANGED <<sim, h, w, orig, cells, cells0, diffs, egressOut, ingressIn,
                   pass, dead, panicked, fault,
                   reordered, steps>>

\* compute_diffs returns; perform_egress allocates the flows.
JoinCompute ==
    /\ pc = "compute"
    /\ AllDone
    /\ panicked = "none"
    /\ flows' = [p \in DOMAIN cells |-> [d \in Dirs |-> FlowPadding(sim)]]
    /\ consumed' = [p \in DOMAIN cells |-> "live"]
    /\ pc' = "egress"
    /\ Fork(h * w)
    /\ UNCHANGED <<lgVars, mgVars, fnVars>>
    /\ UNCHANGED <<sim, h, w, orig, cells, cells0, diffs, egressOut, ingressIn,
                   pass, dead, panicked, fault,
                   reordered, steps>>

\* An egress pass whose item also stores its flow to the right in the slot of
\* the cell on its right.
EgressAtPush(k) ==
    /\ pc = "egress"
    /\ HasItem(k)
    /\ LET ix == SliceIndex(w, NextItem(k))
           p == <<ix[1] + 1, ix[2] + 1>>
           r == Egress(sim, cells[p], Window(diffs, ix))
       IN  /\ cells' = [cells EXCEPT ![p] = r.cell]
           /\ flows' = [flows EXCEPT ![p] = r.flows,
                                     ![<<p[1], p[2] + 1>>][4] = r.flows[0]]
           /\ egressOut' = (p :> r.flows) @@ egressOut
           /\ UNCHANGED <<pc, fault>>
    /\ Advance(k)
    /\ UNCHANGED <<lgVars, mgVars, fnVars>>
    /\ UNCHANGED <<sim, h, w, orig, cells0, diffs, consumed, ingressIn, pass,
                   split, dead, panicked, steps>>

\* One item of the first par_azip of perform_egress.
EgressAt(k) ==
    /\ pc = "egress"
    /\ HasItem(k)
    /\ LET ix == SliceIndex(w, NextItem(k))
           p == <<ix[1] + 1, ix[2] + 1>>
       IN  IF WindowCells(ix) \subseteq DOMAIN diffs
           THEN LET r == Egress(sim, cells[p], Window(diffs, ix))
                IN  /\ cells' = [cells EXCEPT ![p] = r.cell]
                    /\ flows' = [flows EXCEPT ![p] = r.flows]
                    /\ egressOut' = (p :> r.flows) @@ egressOut
                    /\ UNCHANGED <<pc, fault>>
           ELSE /\ fault' = "oob"
                /\ pc' = "aborted"
                /\ UNCHANGED <<cells, flows, egressOut>>
    /\ Advance(k)
    /\ UNCHANGED <<lgVars, mgVars, fnVars>>
    /\ UNCHANGED <<sim, h, w, orig, cells0, diffs, consumed, ingressIn, pass,
                   split, dead, panicked, steps>>

\* The egress pass is over; the first exchange pass starts.
JoinEgress ==
    /\ pc = "egress"
    /\ AllDone
    /\ panicked = "none"
    /\ pc' = "exchange"
    /\ pass' = 0
    /\ Fork(NumChunks(h, w, 0))
    /\ UNCHANGED <<lgVars, mgVars, fnVars>>
    /\ UNCHANGED <<sim, h, w, orig, cells, cells0, diffs, flows, consumed,
                   egressOut, ingressIn, dead, panicked, fault,
                   reordered, steps>>

\* One chunk of an exchange pass.
ExchangeAt(k) ==
    /\ pc = "exchange"
    /\ HasItem(k)
    /\ LET tl == ChunkCorner(h, w, pass, NextItem(k))
       IN  IF ChunkCells(tl) \subseteq DOMAIN flows
           THEN /\ flows' = ExchangeChunk(flows, tl)
                /\ UNCHANGED <<pc, fault>>
           ELSE /\ fault' = "oob"
                /\ pc' = "aborted"
                /\ UNCHANGED flows
    /\ Advance(k)
    /\ UNCHANGED <<lgVars, mgVars, fnVars>>
    /\ UNCHANGED <<sim, h, w, orig, cells, cells0, diffs, consumed, egressOut,
                   ingressIn, pass, split, dead, panicked, steps>>

\* An exchange pass is over: the next one starts, or perform_ingress is entered.
JoinExchange ==
    /\ pc = "exchange"
    /\ AllDone
    /\ IF pass < 3
       THEN /\ pass' = pass + 1
            /\ Fork(NumChunks(h, w, pass + 1))
            /\ UNCHANGED pc
       ELSE /\ pc' = "ingress"
            /\ Fork((h + 2) * (w + 2))
            /\ UNCHANGED pass
    /\ UNCHANGED <<lgVars, mgVars, fnVars>>
    /\ UNCHANGED <<sim, h, w, orig, cells, cells0, diffs, flows, consumed,
                   egressOut, ingressIn, dead, panicked, fault,
                   reordered, steps>>

Consume(c, how) == IF c = "live" THEN how ELSE "double"

\* An ingress pass that calls ingress for the padding too.
IngressAtEveryCell(k) ==
    /\ pc = "ingress"
    /\ HasItem(k)
    /\ LET p == PaddedIndex(w, NextItem(k))
       IN  /\ cells' = [cells EXCEPT ![p] = Ingress(sim, cells[p], flows[p])]
           /\ ingressIn' = (p :> flows[p]) @@ ingressIn
           /\ consumed' = [consumed EXCEPT ![p] = Consume(@, "taken")]
    /\ Advance(k)
    /\ UNCHANGED <<lgVars, mgVars, fnVars>>
    /\ UNCHANGED <<sim, h, w, orig, pc, cells0, diffs, flows, egressOut, pass,
                   split, dead, panicked, fault,
                   reordered, steps>>

\* One item of the par_azip of perform_ingress.
IngressAt(k) ==
    /\ pc = "ingress"
    /\ HasItem(k)
    /\ LET p == PaddedIndex(w, NextItem(k))
       IN  IF NotPadding(Dim, p)
           THEN /\ cells' = [cells EXCEPT ![p] = Ingress(sim, cells[p], flows[p])]
                /\ ingressIn' = (p :> flows[p]) @@ ingressIn
                /\ consumed' = [consumed EXCEPT ![p] = Consume(@, "taken")]
           ELSE /\ consumed' = [consumed EXCEPT ![p] = Consume(@, "dropped")]
                /\ UNCHANGED <<cells, ingressIn>>
    /\ Advance(k)
    /\ UNCHANGED <<lgVars, mgVars, fnVars>>
    /\ UNCHANGED <<sim, h, w, orig, pc, cells0, diffs, flows, egressOut, pass,
                   split, dead, panicked, fault,
                   reordered, steps>>

\* perform_ingress and step_parallel return; flows and diffs are freed.
JoinIngress ==
    /\ pc = "ingress"
    /\ AllDone
    /\ panicked = "none"
    /\ pc' = "idle"
    /\ steps' = steps + 1
    /\ flows' = NoArray
    /\ diffs' = NoArray
    /\ UNCHANGED <<lgVars, mgVars, fnVars>>
    /\ UNCHANGED <<sim, h, w, orig, cells, cells0, consumed, egressOut,
                   ingressIn, pass, split, cur, dead, panicked, fault,
                   reordered>>

\* Whether the next item of worker k calls a callback of the simulation.
CallsBack(k) ==
    \/ pc \in {"compute", "egress"}
    \/ pc = "ingress" /\ NotPadding(Dim, PaddedIndex(w, NextItem(k)))

\* The callback of the next item of worker k panics: the worker stops there.
CallbackPanics(k) ==
    /\ pc \in {"compute", "egress", "ingress"}
    /\ panicked = "none"
    /\ HasItem(k)
    /\ CallsBack(k)
    /\ panicked' = pc
    /\ dead' = dead \cup {k}
    /\ UNCHANGED <<lgVars, mgVars, fnVars>>
    /\ UNCHANGED <<sim, h, w, orig, pc, cells, cells0, diffs, flows, consumed,
                   egressOut, ingressIn, pass, split, cur, fault, reordered,
                   steps>>

\* An unwinding that puts the cells back as they were when the step began.
UnwindRollback ==
    /\ pc \in {"compute", "egress", "ingress"}
    /\ panicked # "none"
    /\ pc' = "aborted"
    /\ cells' = cells0
    /\ UNCHANGED <<lgVars, mgVars, fnVars>>
    /\ UNCHANGED <<sim, h, w, orig, cells0, diffs, flows, consumed,
                   egressOut, ingressIn, pass, split, cur, dead, panicked,
                   fault, reordered, steps>>

\* The panic leaves the pass and unwinds step_parallel.  The other worker has
\* run none, some or all of its items by then.
Unwind ==
    /\ pc \in {"compute", "egress", "ingress"}
    /\ panicked # "none"
    /\ pc' = "aborted"
    /\ UNCHANGED <<lgVars, mgVars, fnVars>>
    /\ UNCHANGED <<sim, h, w, orig, cells, cells0, diffs, flows, consumed,
                   egressOut, ingressIn, pass, split, cur, dead, panicked,
                   fault, reordered, steps>>

----------------------------------------------------------------------------
(* Directions of the eight flows of a cell (neumann.rs, direction.rs).     *)

\* Number of values of NeumannDirection.
NeumannTotal == 8

\* NeumannDirection::delta of the direction of index d, as (dx, dy): x grows to
\* the right and y grows downwards.
Delta(d) ==
    CASE d = 0 -> <<1, 0>>
      [] d = 1 -> <<1, -1>>
      [] d = 2 -> <<0, -1>>
      [] d = 3 -> <<-1, -1>>
      [] d = 4 -> <<-1, 0>>
      [] d = 5 -> <<-1, 1>>
      [] d = 6 -> <<0, 1>>
      [] d = 7 -> <<1, 1>>

\* Direction::inv on the index of a direction among total directions.
Inv(d, total) == (d + total \div 2) % total

\* The position next to p = (y, x) in direction d.
Neighbour(p, d) == <<p[1] + Delta(d)[2], p[2] + Delta(d)[1]>>

----------------------------------------------------------------------------
(* Grid (lib.rs).                                                          *)

\* A Rule::rule that forgets that the count includes the centre cell.
GolRuleNeighboursOnly(win) ==
    LET n == CountTrue(win)
    IN  IF win[1][1] THEN n >= 2 /\ n <= 3 ELSE n = 3

\* Rule::rule of GOL.
GolRule(win) ==
    LET n == CountTrue(win)
    IN  IF win[1][1] THEN n >= 3 /\ n <= 4 ELSE n = 3

\* Sim::step and Sim::update; for a Rule, step is the rule and update stores the diff.
LibStep(s, win) == IF s = "Gol" THEN GolRule(win) ELSE <<"step", win>>

LibUpdate(s, cell, diff) == IF s = "Gol" THEN diff ELSE <<"update", cell, diff>>

\* 2^64 modulo m, by squaring 2 six times.
Sq(x, m) == (x * x) % m
TwoPow64Mod(m) == Sq(Sq(Sq(Sq(Sq(Sq(2 % m, m), m), m), m), m), m)

\* (x as usize) % m for an integer x above -2^64, whose usize value is x modulo 2^64.
UsizeMod(x, m) == IF x >= 0 THEN x % m ELSE ((x % m) + TwoPow64Mod(m)) % m

\* The index expression of row r and column c of the block built by step:
\* size + i, then -1 or +1, then -width or +width, evaluated from left to right.
IndexSums(size, width, i, r, c) ==
    <<size + i, size + i + (c - 1), size + i + (c - 1) + (r - 1) * width>>

\* Whether the expression goes below zero on the way (usize has no such value).
Underflows(size, width, i, r, c) ==
    \E n \in 1 .. 3 : IndexSums(size, width, i, r, c)[n] < 0

\* The index of the cell the closure cs returns, in the release build.
CsIndex(size, width, i, r, c) ==
    UsizeMod(IndexSums(size, width, i, r, c)[3], size)

BlockUnderflows(size, width, i) ==
    \E r \in 0 .. 2, c \in 0 .. 2 : Underflows(size, width, i, r, c)

\* The 3x3 block of references step builds for cell i of the cells cs.
Block(cs, size, width, i) ==
    [r \in 0 .. 2 |-> [c \in 0 .. 2 |-> cs[CsIndex(size, width, i, r, c)]]]

\* The fork of step_par / update_par; step and update run the items in order.
ForkOrLoop(par, n) ==
    /\ IF par THEN split' \in 0 .. n ELSE split' = n
    /\ cur' = [k \in Workers |-> 0]

InitLib(s, ww, hh, b) ==
    /\ SquareOff
    /\ FnOff
    /\ NoWorkers
    /\ MultiOff
    /\ sim = s
    /\ gpc = "idle"
    /\ gw = ww
    /\ gh = hh
    /\ gcells = [i \in 0 .. ww * hh - 1 |-> <<"cell", i>>]
    /\ gcells0 = NoArray
    /\ gdiffs = NoArray
    /\ gout = NoArray
    /\ gpar = FALSE
    /\ build = b
    /\ gcycles = 0
    /\ gmodes = {}

\* cycle (par = FALSE) or cycle_par (par = TRUE) is entered.
CycleBegin(par) ==
    /\ gpc = "idle"
    /\ gcycles < MaxSteps
    /\ gpar' = par
    /\ gcells0' = gcells
    /\ gout' = NoArray
    /\ gpc' = "step"
    /\ ForkOrLoop(par, gw * gh)
    /\ reordered' = FALSE
    /\ gmodes' = gmodes \cup {par}
    /\ UNCHANGED <<sim, sqOnly, mgVars, fnVars, gw, gh, gcells, gdiffs, build,
                   gcycles>>

\* A step_par whose block takes its left column where the right one is.
StepAtParWrongColumn(k) ==
    /\ gpc = "step"
    /\ HasItem(k)
    /\ LET i == NextItem(k) - 1
           blk == [r \in 0 .. 2 |-> [c \in 0 .. 2 |->
                      gcells[CsIndex(gw * gh, gw, i, r,
                                     IF gpar /\ c = 0 THEN 2 ELSE c)]]]
       IN  IF build = "debug" /\ BlockUnderflows(gw * gh, gw, i)
           THEN /\ gpc' = "panicked"
                /\ UNCHANGED gout
           ELSE /\ gout' = (i :> LibStep(sim, blk)) @@ gout
                /\ UNCHANGED gpc
    /\ Advance(k)
    /\ UNCHANGED <<sim, sqOnly, mgVars, fnVars, gmodes,
                   split, gw, gh, gcells, gcells0, gdiffs,
                   gpar, build, gcycles>>

\* One item of the map of step / step_par.
StepAt(k) ==
    /\ gpc = "step"
    /\ HasItem(k)
    /\ LET i == NextItem(k) - 1
       IN  IF build = "debug" /\ BlockUnderflows(gw * gh, gw, i)
           THEN /\ gpc' = "panicked"
                /\ UNCHANGED gout
           ELSE /\ gout' = (i :> LibStep(sim, Block(gcells, gw * gh, gw, i))) @@ gout
                /\ UNCHANGED gpc
    /\ Advance(k)
    /\ UNCHANGED <<sim, sqOnly, mgVars, fnVars, gmodes,
                   split, gw, gh, gcells, gcells0, gdiffs,
                   gpar, build, gcycles>>

\* The diffs are collected into self.diffs; update / update_par is entered.
StepJoin ==
    /\ gpc = "step"
    /\ AllDone
    /\ gdiffs' = gout
    /\ gout' = NoArray
    /\ gpc' = "update"
    /\ ForkOrLoop(gpar, gw * gh)
    /\ UNCHANGED <<sim, sqOnly, mgVars, fnVars, gmodes,
                   reordered, gw, gh, gcells, gcells0,
                   gpar, build, gcycles>>

\* One item of update / update_par.
UpdateAt(k) ==
    /\ gpc = "update"
    /\ HasItem(k)
    /\ LET i == NextItem(k) - 1
       IN  gcells' = [gcells EXCEPT ![i] = LibUpdate(sim, @, gdiffs[i])]
    /\ Advance(k)
    /\ UNCHANGED <<sim, sqOnly, mgVars, fnVars, gmodes,
                   split, gpc, gw, gh, gcells0, gdiffs,
                   gout, gpar, build, gcycles>>

\* The cycle returns; self.diffs is left empty.
UpdateJoin ==
    /\ gpc = "update"
    /\ AllDone
    /\ gdiffs' = NoArray
    /\ gpc' = "idle"
    /\ gcycles' = gcycles + 1
    /\ UNCHANGED <<sim, sqOnly, mgVars, fnVars, gmodes,
                   split, cur, reordered, gw, gh, gcells,
                   gcells0, gout, gpar, build>>

LibActions ==
    \/ \E par \in BOOLEAN : CycleBegin(par)
    \/ \E k \in Workers : StepAt(k)
    \/ StepJoin
    \/ \E k \in Workers : UpdateAt(k)
    \/ UpdateJoin

\* cycle run on the cells c, cell after cell.
LibCycle(c, width, height) ==
    [i \in DOMAIN c |->
        LibUpdate(sim, c[i], LibStep(sim, Block(c, width * height, width, i)))]

----------------------------------------------------------------------------
(* VonNeumannMultiSquareGrid (multigrid.rs).                               *)

Tiles == (0 .. mshape[1] - 1) \X (0 .. mshape[2] - 1)

\* A sync_cells that reads the right neighbour before it writes.
SyncCellsOpsReadFirst(width, height) ==
    <<<<"read", 0, 0>>, <<"write", 1, width - 1>>>>


\* A sync_cells that sends the left column to the right and the right one to the left.
SyncCellsOpsColumnsSwapped(width, height) ==
    <<<<"write", 1, width - 1>>,
      <<"write", 3, 0>>,
      <<"write", 5, (height - 1) * width>>,
      <<"write", 7, width * height - 1>>>>
    \o [i \in 1 .. height |-> <<"write", 0, (i - 1) * width>>]
    \o [i \in 1 .. width |-> <<"write", 2, i - 1>>]
    \o [i \in 1 .. height |-> <<"write", 4, i * width - 1>>]
    \o [i \in 1 .. width |-> <<"write", 6, width * height - width + i - 1>>]

\* The channel operations of sync_cells, in order: the kind, the index of the
\* direction of the channel and the index of the cell that is serialized.
SyncCellsOps(width, height) ==
    <<<<"write", 1, width - 1>>,
      <<"write", 3, 0>>,
      <<"write", 5, (height - 1) * width>>,
      <<"write", 7, width * height - 1>>>>
    \o [i \in 1 .. height |-> <<"write", 0, i * width - 1>>]
    \o [i \in 1 .. width |-> <<"write", 2, i - 1>>]
    \o [i \in 1 .. height |-> <<"write", 4, (i - 1) * width>>]
    \o [i \in 1 .. width |-> <<"write", 6, width * height - width + i - 1>>]

\* The cell of index i of tile t is the cell of this index of the logical grid.
LogicalIndex(t, i) ==
    (t[2] * mh + (i \div mw)) * (mshape[1] * mw) + t[1] * mw + (i % mw)

InitMulti(shape, ww, hh) ==
    /\ SquareOff
    /\ FnOff
    /\ NoWorkers
    /\ LibOff
    /\ sim = "Sym"
    /\ mshape = shape
    /\ mw = ww
    /\ mh = hh
    /\ mcells = [t \in (0 .. shape[1] - 1) \X (0 .. shape[2] - 1) |->
                    [i \in 0 .. ww * hh - 1 |->
                        <<"cell", (t[2] * hh + (i \div ww)) * (shape[1] * ww)
                                  + t[1] * ww + (i % ww)>>]]
    /\ mstate = [t \in (0 .. shape[1] - 1) \X (0 .. shape[2] - 1) |-> "sync_cells"]
    /\ mpos = [t \in (0 .. shape[1] - 1) \X (0 .. shape[2] - 1) |-> 0]
    /\ chan = [td \in ((0 .. shape[1] - 1) \X (0 .. shape[2] - 1)) \X Dirs |-> <<>>]
    /\ mops = [t \in (0 .. shape[1] - 1) \X (0 .. shape[2] - 1) |-> <<>>]
    /\ mnbr = [t \in (0 .. shape[1] - 1) \X (0 .. shape[2] - 1) |->
                  [d \in Dirs |-> <<>>]]

\* A sync_cells that goes on with its next operation after one has failed.
SyncStepAfterError(t) ==
    /\ mstate[t] \in {"sync_cells", "io_error"}
    /\ mpos[t] < Len(SyncCellsOps(mw, mh))
    /\ LET op == SyncCellsOps(mw, mh)[mpos[t] + 1]
       IN  /\ mops' = [mops EXCEPT ![t] = Append(@, <<op[1], op[2]>>)]
           /\ chan' = IF op[1] = "write"
                      THEN [chan EXCEPT ![<<t, op[2]>>] = Append(@, mcells[t][op[3]])]
                      ELSE chan
    /\ mpos' = [mpos EXCEPT ![t] = @ + 1]
    /\ UNCHANGED <<sgVars, lgVars, fnVars, mnbr, mshape, mw, mh, mcells, mstate>>

\* The next channel operation of sync_cells of tile t succeeds.
SyncStep(t) ==
    /\ mstate[t] = "sync_cells"
    /\ mpos[t] < Len(SyncCellsOps(mw, mh))
    /\ LET op == SyncCellsOps(mw, mh)[mpos[t] + 1]
       IN  /\ mops' = [mops EXCEPT ![t] = Append(@, <<op[1], op[2]>>)]
           /\ chan' = IF op[1] = "write"
                      THEN [chan EXCEPT ![<<t, op[2]>>] = Append(@, mcells[t][op[3]])]
                      ELSE chan
    /\ mpos' = [mpos EXCEPT ![t] = @ + 1]
    /\ UNCHANGED <<sgVars, lgVars, fnVars, mnbr, mshape, mw, mh, mcells, mstate>>

\* The next channel operation of tile t fails: sync_cells and cycle return the error.
SyncFails(t) ==
    /\ mstate[t] = "sync_cells"
    /\ mpos[t] < Len(SyncCellsOps(mw, mh))
    /\ mstate' = [mstate EXCEPT ![t] = "io_error"]
    /\ UNCHANGED <<sgVars, lgVars, fnVars, mnbr, mshape, mw, mh, mcells, mpos, chan, mops>>

\* Every value is written: sync_cells reaches unimplemented!() and panics.
SyncUnimplemented(t) ==
    /\ mstate[t] = "sync_cells"
    /\ mpos[t] = Len(SyncCellsOps(mw, mh))
    /\ mstate' = [mstate EXCEPT ![t] = "panicked"]
    /\ UNCHANGED <<sgVars, lgVars, fnVars, mnbr, mshape, mw, mh, mcells, mpos, chan, mops>>

MultiActions ==
    \/ \E t \in Tiles : SyncStep(t)
    \/ \E t \in Tiles : SyncFails(t)
    \/ \E t \in Tiles : SyncUnimplemented(t)

----------------------------------------------------------------------------
(* Functions that have no state of their own: a call has arguments (fin) and *)
(* a result (fout), which is [ok |-> FALSE] when the call panics.            *)

Panic == [ok |-> FALSE]
Return(v) == [ok |-> TRUE, value |-> v]

\* The 3x3 blocks of booleans.
Blocks == [0 .. 2 -> [0 .. 2 -> BOOLEAN]]

\* iter.into_iter().take(n).collect() on the items of an iterator.
Take(items, n) == SubSeq(items, 1, IF n < Len(items) THEN n ELSE Len(items))

\* A new_iter without the assertion on the number of cells.
NewIterNoAssert(width, height, items) ==
    Return([cells |-> Take(items, width * height),
            width |-> width, height |-> height])

\* new_iter of Grid (lib.rs), SquareGrid (grid.rs) and
\* VonNeumannMultiSquareGrid (multigrid.rs): the three bodies are the same.
NewIter(width, height, items) ==
    LET taken == Take(items, width * height)
    IN  IF Len(taken) = width * height
        THEN Return([cells |-> taken, width |-> width, height |-> height])
        ELSE Panic

\* The iterator of n items: item k is the k-th it yields.
Items(n) == [k \in 1 .. n |-> <<"item", k>>]

\* Number of values of MooreDirection.
MooreTotal == 4

\* FromIterator for NeumannNeighbors: eight times iter.next().unwrap().
NeumannFromIter(items) ==
    IF Len(items) < 8 THEN Panic
    ELSE Return([right |-> items[1], up_right |-> items[2], up |-> items[3],
                 up_left |-> items[4], left |-> items[5], down_left |-> items[6],
                 down |-> items[7], down_right |-> items[8]])

\* FromIterator for MooreNeighbors: four times iter.next().unwrap().
MooreFromIter(items) ==
    IF Len(items) < 4 THEN Panic
    ELSE Return([right |-> items[1], up |-> items[2], left |-> items[3],
                 down |-> items[4]])

\* Index<NeumannDirection> and Index<MooreDirection>, the direction given by
\* its index (Into<usize>).
NeumannIndex(nb, d) ==
    CASE d = 0 -> nb.right
      [] d = 1 -> nb.up_right
      [] d = 2 -> nb.up
      [] d = 3 -> nb.up_left
      [] d = 4 -> nb.left
      [] d = 5 -> nb.down_left
      [] d = 6 -> nb.down
      [] d = 7 -> nb.down_right

MooreIndex(nb, d) ==
    CASE d = 0 -> nb.right
      [] d = 1 -> nb.up
      [] d = 2 -> nb.left
      [] d = 3 -> nb.down

\* A Neighborhood::new that asks f for the wrong diagonal of two slots.
NeumannNewSwapped(f) ==
    [nb |-> [right |-> f[0], up_right |-> f[3], up |-> f[2], up_left |-> f[1],
             left |-> f[4], down_left |-> f[5], down |-> f[6],
             down_right |-> f[7]],
     calls |-> <<0, 3, 2, 1, 4, 5, 6, 7>>]

\* Neighborhood::new: the neighbourhood, and the directions f was called with,
\* in the order of the calls (the fields of a struct expression are evaluated
\* in the order they are written in).
NeumannNew(f) ==
    [nb |-> [right |-> f[0], up_right |-> f[1], up |-> f[2], up_left |-> f[3],
             left |-> f[4], down_left |-> f[5], down |-> f[6],
             down_right |-> f[7]],
     calls |-> <<0, 1, 2, 3, 4, 5, 6, 7>>]

MooreNew(f) ==
    [nb |-> [right |-> f[0], up |-> f[1], left |-> f[2], down |-> f[3]],
     calls |-> <<0, 1, 2, 3>>]

\* Neighborhood::iter and Neighborhood::dir_iter: what the iterator yields.
NeumannIter(nb) ==
    <<nb.right, nb.up_right, nb.up, nb.up_left, nb.left, nb.down_left, nb.down,
      nb.down_right>>

NeumannDirIter(nb) ==
    <<<<0, nb.right>>, <<1, nb.up_right>>, <<2, nb.up>>, <<3, nb.up_left>>,
      <<4, nb.left>>, <<5, nb.down_left>>, <<6, nb.down>>, <<7, nb.down_right>>>>

MooreIter(nb) == <<nb.right, nb.up, nb.left, nb.down>>

MooreDirIter(nb) ==
    <<<<0, nb.right>>, <<1, nb.up>>, <<2, nb.left>>, <<3, nb.down>>>>

\* Directions (direction.rs, neumann.rs, moore.rs).  A direction is the name of
\* its enum variant; "Neumann" and "Moore" name the two sets of directions.

\* Direction::directions: the variants in the order of the enum.
NeumannDirections ==
    <<"Right", "UpRight", "Up", "UpLeft", "Left", "DownLeft", "Down", "DownRight">>

MooreDirections == <<"Right", "Up", "Left", "Down">>

Directions(set) == IF set = "Neumann" THEN NeumannDirections ELSE MooreDirections

\* Direction::total: Self::directions().count().
Total(set) == Len(Directions(set))

\* An Into<usize> that gives two directions the same index.
NeumannIntoCollide(d) ==
    CASE d = "Right" -> 0
      [] d = "UpRight" -> 1
      [] d = "Up" -> 2
      [] d = "UpLeft" -> 3
      [] d = "Left" -> 4
      [] d = "DownLeft" -> 5
      [] d = "Down" -> 6
      [] d = "DownRight" -> 0

\* Into<usize> for NeumannDirection and for MooreDirection.
NeumannInto(d) ==
    CASE d = "Right" -> 0
      [] d = "UpRight" -> 1
      [] d = "Up" -> 2
      [] d = "UpLeft" -> 3
      [] d = "Left" -> 4
      [] d = "DownLeft" -> 5
      [] d = "Down" -> 6
      [] d = "DownRight" -> 7

MooreInto(d) ==
    CASE d = "Right" -> 0
      [] d = "Up" -> 1
      [] d = "Left" -> 2
      [] d = "Down" -> 3

\* From<usize> for NeumannDirection and for MooreDirection: any other integer
\* panics.
NeumannFrom(n) ==
    CASE n = 0 -> Return("Right")
      [] n = 1 -> Return("UpRight")
      [] n = 2 -> Return("Up")
      [] n = 3 -> Return("UpLeft")
      [] n = 4 -> Return("Left")
      [] n = 5 -> Return("DownLeft")
      [] n = 6 -> Return("Down")
      [] n = 7 -> Return("DownRight")
      [] OTHER -> Panic

MooreFrom(n) ==
    CASE n = 0 -> Return("Right")
      [] n = 1 -> Return("Up")
      [] n = 2 -> Return("Left")
      [] n = 3 -> Return("Down")
      [] OTHER -> Panic

Into(set, d) == IF set = "Neumann" THEN NeumannInto(d) ELSE MooreInto(d)

From(set, n) == IF set = "Neumann" THEN NeumannFrom(n) ELSE MooreFrom(n)

\* An inv that goes a quarter of the way round.
DirInvQuarter(set, d) ==
    From(set, (Into(set, d) + Total(set) \div 4) % Total(set))

\* Direction::inv: n = self.into(); n += total / 2; n %= total; n.into().
DirInv(set, d) == From(set, Inv(Into(set, d), Total(set)))

\* A turn_clockwise that adds total + 1.
TurnClockwiseForward(set, d) ==
    From(set, (Into(set, d) + Total(set) + 1) % Total(set))

\* Direction::turn_clockwise: n += total - 1; n %= total.
TurnClockwise(set, d) ==
    From(set, (Into(set, d) + Total(set) - 1) % Total(set))

\* Direction::turn_counterclockwise: n += 1; n %= total.
TurnCounterclockwise(set, d) ==
    From(set, (Into(set, d) + 1) % Total(set))

\* NeumannDirection::delta, as (dx, dy).
NeumannDelta(d) ==
    CASE d = "Right" -> <<1, 0>>
      [] d = "UpRight" -> <<1, -1>>
      [] d = "Up" -> <<0, -1>>
      [] d = "UpLeft" -> <<-1, -1>>
      [] d = "Left" -> <<-1, 0>>
      [] d = "DownLeft" -> <<-1, 1>>
      [] d = "Down" -> <<0, 1>>
      [] d = "DownRight" -> <<1, 1>>

\* A delta whose y axis grows upwards for Up only.
MooreDeltaUpPositive(d) ==
    CASE d = "Right" -> <<1, 0>>
      [] d = "Up" -> <<0, 1>>
      [] d = "Left" -> <<-1, 0>>
      [] d = "Down" -> <<0, 1>>

\* MooreDirection::delta, as (dx, dy).
MooreDelta(d) ==
    CASE d = "Right" -> <<1, 0>>
      [] d = "Up" -> <<0, -1>>
      [] d = "Left" -> <<-1, 0>>
      [] d = "Down" -> <<0, 1>>

DirDelta(set, d) == IF set = "Neumann" THEN NeumannDelta(d) ELSE MooreDelta(d)

\* The centered coordinate cells are made from, and the cell the free map makes
\* from it.
CoordOf(width, height, x, y) == <<x - width \div 2, y - height \div 2>>

CoordCell(c) == <<"coord", c[1], c[2]>>

\* A new_coord_map that halves the wrong dimension on each axis.
NewCoordMapAxesMixed(width, height) ==
    NewIter(width, height,
            [k \in 1 .. width * height |->
                CoordCell(<<((k - 1) % width) - height \div 2,
                            ((k - 1) \div width) - width \div 2>>)])

\* new_coord_map under the free map: item k (from 1) of the iterator given to
\* new_iter is the cell of x = (k - 1) % width, y = (k - 1) / width.
NewCoordMap(width, height) ==
    NewIter(width, height,
            [k \in 1 .. width * height |->
                CoordCell(CoordOf(width, height, (k - 1) % width, (k - 1) \div width))])

\* The cells new_coords makes out of the map coords (a set of keys, each with
\* the value true): the call for item k removes its coordinate from the map and
\* gives its value, or the default (false) when the map does not have it.
RECURSIVE TrueCoordsItems(_, _, _, _)
TrueCoordsItems(width, height, coords, k) ==
    IF k > width * height THEN <<>>
    ELSE LET c == CoordOf(width, height, (k - 1) % width, (k - 1) \div width)
         IN  <<c \in coords>> \o TrueCoordsItems(width, height, coords \ {c}, k + 1)

\* new_true_coords: the coordinates, each paired with true, are collected into
\* a HashMap, which keeps one entry per coordinate.
NewTrueCoords(width, height, given) ==
    NewIter(width, height,
            TrueCoordsItems(width, height, {given[j] : j \in DOMAIN given}, 1))

\* delta_index of VonNeumannMultiSquareGrid (multigrid.rs):
\* ((i + size) as isize + x + y * width as isize) as usize % size.
MultiDeltaIndex(width, height, i, delta) ==
    UsizeMod(i + width * height + delta[1] + delta[2] * width, width * height)

\* A delta_index of SquareGrid that offsets the index as a whole.
GridDeltaIndexFlat(width, height, i, delta) ==
    MultiDeltaIndex(width, height, i, delta)

\* delta_index of SquareGrid (grid.rs): each coordinate is offset and wrapped by
\* itself, (dim as isize + d + c as isize) as usize % dim.
GridDeltaIndex(width, height, i, delta) ==
    LET x == i % width
        y == i \div width
    IN  UsizeMod(width + delta[1] + x, width)
            + UsizeMod(height + delta[2] + y, height) * width

\* The cells of a grid of grid.rs as new_iter stores them: distinct atoms.
GridCells(width, height) == [k \in 1 .. width * height |-> <<"cell", k - 1>>]

\* get_cell and get_cell_mut: &self.cells[i], which panics out of bounds.
GetCell(cs, i) == IF i < Len(cs) THEN Return(cs[i + 1]) ELSE Panic

\* get_cell_at and get_cell_at_mut: &self.cells[y * self.height + x].
GetCellAt(width, height, cs, x, y) == GetCell(cs, y * height + x)

\* The state before a call.
InitCall(in) ==
    /\ SquareOff
    /\ NoWorkers
    /\ LibOff
    /\ MultiOff
    /\ sim = "Gol"
    /\ fpc = "call"
    /\ fin = in
    /\ fout = NoArray

\* The call returns or panics.
Returns(out) ==
    /\ fpc = "call"
    /\ fout' = out
    /\ fpc' = "done"
    /\ UNCHANGED <<sgVars, lgVars, mgVars, fin>>

CallRule == fin.fn = "GOL::rule" /\ Returns(Return(GolRule(fin.block)))

CallCompute == fin.fn = "Gol::compute" /\ Returns(Return(GolCompute(fin.block)))

CallNewIter ==
    /\ fin.fn = "new_iter"
    /\ Returns(NewIter(fin.width, fin.height, fin.items))

CallFromIter ==
    /\ fin.fn = "from_iter"
    /\ Returns(IF fin.total = NeumannTotal
               THEN NeumannFromIter(fin.items)
               ELSE MooreFromIter(fin.items))

CallNew ==
    /\ fin.fn = "new"
    /\ Returns(Return(IF fin.total = NeumannTotal
                      THEN NeumannNew(fin.f)
                      ELSE MooreNew(fin.f)))

\* A method of Direction, a conversion or delta is called.
CallDirection ==
    /\ fin.fn \in {"inv", "turn_clockwise", "turn_counterclockwise", "delta",
                   "total", "into", "from"}
    /\ Returns(CASE fin.fn = "inv" -> DirInv(fin.set, fin.d)
                 [] fin.fn = "turn_clockwise" -> TurnClockwise(fin.set, fin.d)
                 [] fin.fn = "turn_counterclockwise" ->
                        TurnCounterclockwise(fin.set, fin.d)
                 [] fin.fn = "delta" -> Return(DirDelta(fin.set, fin.d))
                 [] fin.fn = "total" -> Return(Total(fin.set))
                 [] fin.fn = "into" -> Return(Into(fin.set, fin.d))
                 [] fin.fn = "from" -> From(fin.set, fin.n))

\* delta_index of grid.rs or of multigrid.rs is called.
CallDeltaIndex ==
    /\ fin.fn \in {"grid::delta_index", "multigrid::delta_index"}
    /\ Returns(Return(IF fin.fn = "grid::delta_index"
                      THEN GridDeltaIndex(fin.width, fin.height, fin.i, fin.delta)
                      ELSE MultiDeltaIndex(fin.width, fin.height, fin.i, fin.delta)))

\* get_cell, get_cell_at or get_cell_at_mut of grid.rs is called.
CallGetCell ==
    /\ fin.fn \in {"get_cell", "get_cell_at", "get_cell_at_mut"}
    /\ Returns(IF fin.fn = "get_cell"
               THEN GetCell(GridCells(fin.width, fin.height), fin.i)
               ELSE GetCellAt(fin.width, fin.height,
                              GridCells(fin.width, fin.height), fin.x, fin.y))

CallNewCoordMap ==
    /\ fin.fn = "new_coord_map"
    /\ Returns(NewCoordMap(fin.width, fin.height))

CallNewTrueCoords ==
    /\ fin.fn = "new_true_coords"
    /\ Returns(NewTrueCoords(fin.width, fin.height, fin.coords))

FnActions ==
    \/ CallRule
    \/ CallCompute
    \/ CallNewIter
    \/ CallFromIter
    \/ CallNew
    \/ CallDirection
    \/ CallNewCoordMap
    \/ CallNewTrueCoords
    \/ CallDeltaIndex
    \/ CallGetCell

----------------------------------------------------------------------------
(* SquareGrid of grid.rs with MooreNeighbors (grid.rs, moore.rs).  The grid  *)
(* is held in the variables of the Grid of lib.rs: gw and gh are width and   *)
(* height, gcells is cells, gdiffs is diffs, each entry a pair of a diff and *)
(* the moves; consumed tells how often each diff and each move was taken.    *)

\* What belongs to the SquareGrid of square_grid.rs and is not used here.
sqIdle == <<h, w, orig, pc, cells, cells0, diffs, flows, egressOut, ingressIn,
            pass, dead, panicked, fault, steps>>

\* The direction with index n.
MooreDir(n) == MooreFrom(n).value

\* GetNeighbors for MooreNeighbors: MooreNeighbors::new(|dir|
\* self.get_cell_unchecked(self.delta_index(ix, dir.delta()))).
GridGetNeighbors(cs, width, height, ix) ==
    MooreNew([n \in 0 .. 3 |->
                 cs[GridDeltaIndex(width, height, ix, MooreDelta(MooreDir(n)))]]).nb

\* Sim::step under the free simulation: the diff and one move per direction.
GridSimStep(cell, nbrs) ==
    [diff |-> <<"diff", cell, nbrs>>,
     moves |-> MooreNew([n \in 0 .. 3 |-> <<"move", n, cell, nbrs>>]).nb]

\* Sim::update under the free simulation.
GridSimUpdate(cell, diff, moves) == <<"update", cell, diff, moves>>

\* A take_move_neighbors that takes from each neighbour the move of the
\* direction it looked in.
MoveSlotSameDirection(width, height, ix, n) ==
    <<GridDeltaIndex(width, height, ix, MooreDelta(MooreDir(n))), n>>

\* The slot take_move_neighbors takes for direction n of cell ix:
\* take_move_direction(self.delta_index(ix, dir.delta()), dir.inv()), as the
\* index of the cell and the index of the direction.
MoveSlot(width, height, ix, n) ==
    <<GridDeltaIndex(width, height, ix, MooreDelta(MooreDir(n))),
      MooreInto(DirInv("Moore", MooreDir(n)).value)>>

\* take_move_direction: a bitwise copy of the move in the slot.
TakeMoveDirection(df, slot) == MooreIndex(df[slot[1]].moves, slot[2])

\* take_move_neighbors for MooreNeighbors.
TakeMoveNeighbors(df, width, height, ix) ==
    MooreNew([n \in 0 .. 3 |->
                 TakeMoveDirection(df, MoveSlot(width, height, ix, n))]).nb

\* The diff and the move slots that the update of cell ix takes.
TakenBy(width, height, ix) ==
    {<<"diff", ix>>}
        \cup {<<"move", MoveSlot(width, height, ix, n)>> : n \in 0 .. 3}

\* cycle is entered: step starts its par_iter.
GridCycleBegin ==
    /\ gpc = "idle"
    /\ gcycles < MaxSteps
    /\ gcells0' = gcells
    /\ gout' = NoArray
    /\ gpc' = "step"
    /\ Fork(gw * gh)
    /\ reordered' = FALSE
    /\ UNCHANGED <<sim, sqIdle, consumed, mgVars, fnVars, gw, gh, gcells, gdiffs,
                   gpar, build, gcycles, gmodes>>

\* One item of step: single_step.
GridStepAt(k) ==
    /\ gpc = "step"
    /\ HasItem(k)
    /\ LET ix == NextItem(k) - 1
       IN  gout' = (ix :> GridSimStep(gcells[ix],
                                      GridGetNeighbors(gcells, gw, gh, ix))) @@ gout
    /\ Advance(k)
    /\ UNCHANGED <<sim, sqIdle, consumed, mgVars, fnVars, split, gpc, gw, gh,
                   gcells, gcells0, gdiffs, gpar, build, gcycles, gmodes>>

\* The results are collected into self.diffs, each in a ManuallyDrop; update
\* starts its par_iter.
GridStepJoin ==
    /\ gpc = "step"
    /\ AllDone
    /\ gdiffs' = gout
    /\ gout' = NoArray
    /\ consumed' = [s \in {<<"diff", i>> : i \in DOMAIN gout}
                           \cup {<<"move", <<i, n>>>> : i \in DOMAIN gout, n \in 0 .. 3}
                       |-> "live"]
    /\ gpc' = "update"
    /\ Fork(gw * gh)
    /\ UNCHANGED <<sim, sqIdle, mgVars, fnVars, reordered, gw, gh, gcells,
                   gcells0, gpar, build, gcycles, gmodes>>

\* One item of update: S::update(cell, take_diff(ix), take_move_neighbors(ix)).
GridUpdateAt(k) ==
    /\ gpc = "update"
    /\ HasItem(k)
    /\ LET ix == NextItem(k) - 1
       IN  /\ gcells' = [gcells EXCEPT ![ix] =
                            GridSimUpdate(@, gdiffs[ix].diff,
                                          TakeMoveNeighbors(gdiffs, gw, gh, ix))]
           /\ consumed' = [s \in DOMAIN consumed |->
                              IF s \in TakenBy(gw, gh, ix)
                              THEN Consume(consumed[s], "taken")
                              ELSE consumed[s]]
    /\ Advance(k)
    /\ UNCHANGED <<sim, sqIdle, mgVars, fnVars, split, gpc, gw, gh, gcells0,
                   gdiffs, gout, gpar, build, gcycles, gmodes>>

\* self.diffs.clear(), which drops nothing; cycle returns.
GridUpdateJoin ==
    /\ gpc = "update"
    /\ AllDone
    /\ gdiffs' = NoArray
    /\ gpc' = "idle"
    /\ gcycles' = gcycles + 1
    /\ UNCHANGED <<sim, sqIdle, consumed, mgVars, fnVars, split, cur, reordered,
                   gw, gh, gcells, gcells0, gout, gpar, build, gmodes>>

GridActions ==
    \/ GridCycleBegin
    \/ \E k \in Workers : GridStepAt(k)
    \/ GridStepJoin
    \/ \E k \in Workers : GridUpdateAt(k)
    \/ GridUpdateJoin

----------------------------------------------------------------------------
(* Specifications.                                                         *)

StepActions ==
    \/ New
    \/ BeginStep
    \/ \E k \in Workers : ComputeAt(k)
    \/ JoinCompute
    \/ \E k \in Workers : EgressAt(k)
    \/ JoinEgress
    \/ \E k \in Workers : ExchangeAt(k)
    \/ JoinExchange
    \/ \E k \in Workers : IngressAt(k)
    \/ JoinIngress

\* Every original_cells of at most MaxH x MaxW distinct atoms, under "Sym".
InitSquare ==
    \E hh \in 0 .. MaxH, ww \in 0 .. MaxW :
        InitGrid("Sym", hh, ww,
                 [p \in (0 .. hh - 1) \X (0 .. ww - 1) |-> <<"cell", p[1], p[2]>>])

\* Every Grid of at most MaxW x MaxH distinct atoms, under "Sym", in both builds.
InitGridLib ==
    \E ww \in 0 .. MaxW, hh \in 0 .. MaxH, b \in {"debug", "release"} :
        InitLib("Sym", ww, hh, b)

\* A SquareGrid or a Grid.
Init == InitSquare \/ InitGridLib

Next ==
    \/ StepActions
    \/ \E k \in Workers : CallbackPanics(k)
    \/ Unwind
    \/ LibActions

Spec == Init /\ [][Next]_vars

\* The SquareGrid of square_grid.rs alone, under the free simulation.
SquareNext ==
    \/ StepActions
    \/ \E k \in Workers : CallbackPanics(k)
    \/ Unwind

SpecSquare == InitSquare /\ [][SquareNext]_vars

\* The SquareGrid under a simulation whose callbacks all return.
SpecStep == InitSquare /\ [][StepActions]_vars

\* The Grid of lib.rs alone.
SpecLib == InitGridLib /\ [][LibActions]_vars

\* Every SquareGrid of grid.rs of 1 x 1 to MaxW x MaxH distinct atoms, with
\* MooreNeighbors, under the free simulation.
InitMoves ==
    \E ww \in 1 .. MaxW, hh \in 1 .. MaxH : InitLib("Sym", ww, hh, "release")

SpecMoves == InitMoves /\ [][GridActions]_vars

\* The grid of the test gol_blinker: 5 x 5 with a horizontal blinker.
InitGol ==
    InitGrid("Gol", 5, 5,
             [p \in (0 .. 4) \X (0 .. 4) |-> p[1] = 2 /\ p[2] >= 1 /\ p[2] <= 3])

SpecGol == InitGol /\ [][StepActions]_vars

\* Every torus of at most MaxTiles tiles of at most MaxTileSide x MaxTileSide
\* cells each.
InitTiles ==
    \E nx \in 1 .. MaxTiles, ny \in 1 .. MaxTiles,
       ww \in 1 .. MaxTileSide, hh \in 1 .. MaxTileSide :
        /\ nx * ny <= MaxTiles
        /\ InitMulti(<<nx, ny>>, ww, hh)

SpecMulti == InitTiles /\ [][MultiActions]_vars

\* Every call of a function: the rule on every block; new_iter for every width
\* up to MaxW, height up to MaxH and iterator of up to MaxItems items; from_iter
\* on every such iterator; Neighborhood::new on every f with values 0 .. MaxVal;
\* the methods of every direction of both sets, and From<usize> on 0 .. MaxIndex;
\* new_coord_map and new_true_coords for every such width and height, the latter
\* on every sequence of at most MaxCoords coordinates; the two delta_index on
\* every cell of every grid of 1 x 1 to MaxW x MaxH and every delta of at most
\* the width and the height; get_cell on every index up to the size, and
\* get_cell_at and get_cell_at_mut on every column and row of the grid.
InitFn ==
    \/ \E b \in Blocks, fn \in {"GOL::rule", "Gol::compute"} :
           InitCall([fn |-> fn, block |-> b])
    \/ \E ww \in 0 .. MaxW, hh \in 0 .. MaxH, n \in 0 .. MaxItems :
           InitCall([fn |-> "new_iter", width |-> ww, height |-> hh,
                     items |-> Items(n)])
    \/ \E total \in {NeumannTotal, MooreTotal}, n \in 0 .. MaxItems :
           InitCall([fn |-> "from_iter", total |-> total, items |-> Items(n)])
    \/ \E total \in {NeumannTotal, MooreTotal} :
           \E f \in [0 .. total - 1 -> 0 .. MaxVal] :
               InitCall([fn |-> "new", total |-> total, f |-> f])
    \/ \E set \in {"Neumann", "Moore"} :
           \E d \in {Directions(set)[j] : j \in DOMAIN Directions(set)},
              fn \in {"inv", "turn_clockwise", "turn_counterclockwise", "delta",
                      "into"} :
               InitCall([fn |-> fn, set |-> set, d |-> d])
    \/ \E set \in {"Neumann", "Moore"} :
           InitCall([fn |-> "total", set |-> set])
    \/ \E set \in {"Neumann", "Moore"}, n \in 0 .. MaxIndex :
           InitCall([fn |-> "from", set |-> set, n |-> n])
    \/ \E ww \in 0 .. MaxW, hh \in 0 .. MaxH :
           InitCall([fn |-> "new_coord_map", width |-> ww, height |-> hh])
    \/ \E ww \in 0 .. MaxW, hh \in 0 .. MaxH, n \in 0 .. MaxCoords :
           \E given \in [1 .. n -> (-MaxCoord .. MaxCoord) \X (-MaxCoord .. MaxCoord)] :
               InitCall([fn |-> "new_true_coords", width |-> ww, height |-> hh,
                         coords |-> given])
    \/ \E ww \in 1 .. MaxW, hh \in 1 .. MaxH,
          fn \in {"grid::delta_index", "multigrid::delta_index"} :
           \E i \in 0 .. ww * hh - 1, dx \in (0 - ww) .. ww, dy \in (0 - hh) .. hh :
               InitCall([fn |-> fn, width |-> ww, height |-> hh, i |-> i,
                         delta |-> <<dx, dy>>])
    \/ \E ww \in 1 .. MaxW, hh \in 1 .. MaxH :
           \/ \E i \in 0 .. ww * hh :
                  InitCall([fn |-> "get_cell", width |-> ww, height |-> hh, i |-> i])
           \/ \E x \in 0 .. ww - 1, y \in 0 .. hh - 1,
                 fn \in {"get_cell_at", "get_cell_at_mut"} :
                  InitCall([fn |-> fn, width |-> ww, height |-> hh, x |-> x, y |-> y])

SpecFn == InitFn /\ [][FnActions]_vars

----------------------------------------------------------------------------
(* What the claims are stated with.                                        *)

\* The items of the current pass that have been run.
DoneItems == (1 .. cur[1]) \cup (split + 1 .. split + cur[2])

\* The positions whose compute or egress call of the current pass has returned.
DoneSlice == {<<SliceIndex(w, k)[1] + 1, SliceIndex(w, k)[2] + 1>> : k \in DoneItems}

Interior == (1 .. h) \X (1 .. w)

\* The 3x3 block of array c around p, p at (1, 1).
Around(c, p) ==
    [r \in 0 .. 2 |-> [q \in 0 .. 2 |-> c[<<p[1] - 1 + r, p[2] - 1 + q>>]]]

\* The 3x3 block around p by modulo-indexed lookup among the interior cells.
AroundTorus(c, p) ==
    [r \in 0 .. 2 |-> [q \in 0 .. 2 |->
        c[<<1 + ((p[1] - 1 + r - 1) % h), 1 + ((p[2] - 1 + q - 1) % w)>>]]]

\* step_parallel run by one worker, the items of each pass in row-major order.
SeqDiffs(c) ==
    [p \in DOMAIN c |->
        IF p \in Interior THEN Compute(sim, Around(c, p)) ELSE DiffPadding(sim)]

SeqEgressCells(c, df) ==
    [p \in DOMAIN c |->
        IF p \in Interior THEN Egress(sim, c[p], Around(df, p)).cell ELSE c[p]]

SeqEgressFlows(c, df) ==
    [p \in DOMAIN c |->
        IF p \in Interior
        THEN Egress(sim, c[p], Around(df, p)).flows
        ELSE [d \in Dirs |-> FlowPadding(sim)]]

RECURSIVE SeqExchange(_, _, _)
SeqExchange(fl, p, k) ==
    IF p > 3 THEN fl
    ELSE IF k > NumChunks(h, w, p) THEN SeqExchange(fl, p + 1, 1)
    ELSE SeqExchange(ExchangeChunk(fl, ChunkCorner(h, w, p, k)), p, k + 1)

SeqIngress(c, fl) ==
    [p \in DOMAIN c |->
        IF p \in Interior THEN Ingress(sim, c[p], fl[p]) ELSE c[p]]

SeqStep(c) ==
    LET df == SeqDiffs(c)
    IN  SeqIngress(SeqEgressCells(c, df), SeqExchange(SeqEgressFlows(c, df), 0, 1))

\* The positions whose diff has been computed in the current step.
ComputedDiffs ==
    IF pc = "compute" \/ (pc = "aborted" /\ panicked = "compute")
    THEN DoneSlice
    ELSE IF pc \in {"egress", "exchange", "ingress"}
            \/ (pc = "aborted" /\ panicked \in {"egress", "ingress"})
    THEN Interior
    ELSE {}

\* The cells the failed pass had written when its callback panicked.
WrittenByFailedPass ==
    IF panicked = "egress" THEN DoneSlice
    ELSE IF panicked = "ingress"
    THEN {PaddedIndex(w, k) : k \in DoneItems} \cap Interior
    ELSE {}

\* The live cells of the view cells(), indexed (row, column) from 0.
LiveCells == {<<p[1] - 1, p[2] - 1>> : p \in {q \in Interior : cells[q]}}

\* The logical grid a torus of tiles starts from, and its dimensions.
LogicalWidth == mshape[1] * mw
LogicalHeight == mshape[2] * mh
LogicalCells == [j \in 0 .. LogicalWidth * LogicalHeight - 1 |-> <<"cell", j>>]

\* The cells of a Grid as new_iter stored them.
LibCells0 == [i \in 0 .. gw * gh - 1 |-> <<"cell", i>>]

\* n cycles run one after the other on the cells c.
RECURSIVE LibCycleN(_, _)
LibCycleN(c, n) == IF n = 0 THEN c ELSE LibCycle(LibCycleN(c, n - 1), gw, gh)

\* The 3x3 block around cell i by modulo-indexed lookup on both axes: entry
\* [r][c] is the cell at column (x + c - 1) mod width of row (y + r - 1) mod height.
TorusBlock(c, width, height, i) ==
    [r \in 0 .. 2 |-> [q \in 0 .. 2 |->
        c[(((i \div width) + r - 1) % height) * width
          + (((i % width) + q - 1) % width)]]]

\* A cycle that takes the block of every cell by modulo-indexed lookup.
LibCycleTorus(c, width, height) ==
    [i \in DOMAIN c |->
        LibUpdate(sim, c[i], LibStep(sim, TorusBlock(c, width, height, i)))]

\* Number of live cells among the eight neighbours of the centre of a block.
LiveNeighbours(win) ==
    Cardinality({rc \in ((0 .. 2) \X (0 .. 2)) \ {<<1, 1>>} : win[rc[1]][rc[2]]})

\* Index, iter, dir_iter and from_iter of the neighbourhood of total directions.
NbIndex(total, nb, d) ==
    IF total = NeumannTotal THEN NeumannIndex(nb, d) ELSE MooreIndex(nb, d)

NbIter(total, nb) ==
    IF total = NeumannTotal THEN NeumannIter(nb) ELSE MooreIter(nb)

NbDirIter(total, nb) ==
    IF total = NeumannTotal THEN NeumannDirIter(nb) ELSE MooreDirIter(nb)

NbFromIter(total, items) ==
    IF total = NeumannTotal THEN NeumannFromIter(items) ELSE MooreFromIter(items)

\* The tile next to tile t in direction d on the torus of tiles.
NeighbourTile(t, d) ==
    <<(t[1] + Delta(d)[1]) % mshape[1], (t[2] + Delta(d)[2]) % mshape[2]>>

\* The cells of tile t as new_iter stored them.
TileCells0(t) == [i \in 0 .. mw * mh - 1 |-> <<"cell", LogicalIndex(t, i)>>]

\* The boundary cells that face direction d: how many there are, and the index
\* of the i-th (from 1) of them, a side being taken from its top or left end.
BoundaryLen(width, height, d) ==
    CASE d \in {0, 4} -> height
      [] d \in {2, 6} -> width
      [] OTHER -> 1

BoundaryIndex(width, height, d, i) ==
    CASE d = 0 -> i * width - 1
      [] d = 1 -> width - 1
      [] d = 2 -> i - 1
      [] d = 3 -> 0
      [] d = 4 -> (i - 1) * width
      [] d = 5 -> (height - 1) * width
      [] d = 6 -> (height - 1) * width + i - 1
      [] d = 7 -> width * height - 1

\* The flows as the egress calls made so far in this step leave them.
EgressedFlows ==
    [p \in DOMAIN cells |->
        IF p \in DOMAIN egressOut THEN egressOut[p]
        ELSE [d \in Dirs |-> FlowPadding(sim)]]

\* The exchange passes 0 .. last run on the flows fl from chunk k of pass p on.
RECURSIVE ExchangeUpTo(_, _, _, _)
ExchangeUpTo(fl, p, k, last) ==
    IF p > last THEN fl
    ELSE IF k > NumChunks(h, w, p) THEN ExchangeUpTo(fl, p + 1, 1, last)
    ELSE ExchangeUpTo(ExchangeChunk(fl, ChunkCorner(h, w, p, k)), p, k + 1, last)

\* The flows when the current exchange pass began.
PassStart == ExchangeUpTo(EgressedFlows, 0, 1, pass - 1)

\* The chunks of the current exchange pass that have been exchanged, run on fl
\* from chunk k on.
RECURSIVE ExchangeItems(_, _)
ExchangeItems(fl, k) ==
    IF k > NumChunks(h, w, pass) THEN fl
    ELSE ExchangeItems(IF k \in DoneItems
                       THEN ExchangeChunk(fl, ChunkCorner(h, w, pass, k))
                       ELSE fl,
                       k + 1)

\* The position the item k of the current map pass belongs to.
ItemPos(k) ==
    IF pc = "ingress" THEN PaddedIndex(w, k)
    ELSE <<SliceIndex(w, k)[1] + 1, SliceIndex(w, k)[2] + 1>>

\* The positions whose item of the current map pass has been run.
DonePos == {ItemPos(k) : k \in DoneItems}

\* The eight slots exchange_chunk swaps, as pairs of a position and an index.
ChunkSlots(tl) ==
    {<<<<tl[1] + 1, tl[2]>>, 0>>, <<<<tl[1] + 1, tl[2] + 1>>, 4>>,
     <<<<tl[1], tl[2] + 1>>, 6>>, <<<<tl[1] + 1, tl[2] + 1>>, 2>>,
     <<tl, 7>>, <<<<tl[1] + 1, tl[2] + 1>>, 3>>,
     <<<<tl[1], tl[2] + 1>>, 5>>, <<<<tl[1] + 1, tl[2]>>, 1>>}

\* The chunks, as pairs of a pass and an item, that have been exchanged in the
\* current step.
DoneChunks ==
    UNION {{<<q, k>> : k \in {i \in 1 .. NumChunks(h, w, q) :
                                \/ pc = "ingress"
                                \/ q < pass
                                \/ i \in DoneItems}} :
           q \in 0 .. (IF pc = "ingress" THEN 3 ELSE pass)}

\* The slots that the swaps made so far have touched, one entry per swap made
\* and slot it touched.
SwappedSlots ==
    UNION {{<<qk, sl>> : sl \in ChunkSlots(ChunkCorner(h, w, qk[1], qk[2]))} :
           qk \in DoneChunks}

\* The directions of a set, and the number of them the set is said to have.
DirSet(set) == {Directions(set)[j] : j \in DOMAIN Directions(set)}

ClaimedTotal(set) == IF set = "Moore" THEN 4 ELSE 8

\* The sum of the offset vectors of the first n directions of a set.
RECURSIVE DeltaSum(_, _)
DeltaSum(set, n) ==
    IF n = 0 THEN <<0, 0>>
    ELSE LET rest == DeltaSum(set, n - 1)
             dl == DirDelta(set, Directions(set)[n])
         IN  <<rest[1] + dl[1], rest[2] + dl[2]>>

\* A call of fn has returned or panicked.
Called(fn) == fpc = "done" /\ fin.fn = fn

----------------------------------------------------------------------------
(* The claims.                                                             *)

\* C1: order independence.  Whatever the split of the items between the workers
\* and the interleaving of the workers in each pass, a completed step_parallel
\* leaves the cells that the passes run item after item in row-major order leave,
\* and a completed cycle or cycle_par leaves the cells that cycle run cell after
\* cell leaves.
C1_OrderIndependence ==
    /\ (pc = "idle" /\ steps >= 1) => cells = SeqStep(cells0)
    /\ (gpc = "idle" /\ gcycles >= 1) => gcells = LibCycle(gcells0, gw, gh)

\* A step has completed in which some item ran before an item that precedes it.
C1_Witness == pc = "idle" /\ steps = 1 /\ reordered /\ h * w >= 2

\* C2: flow round trip.  For every interior cell a and direction d whose
\* neighbour b is interior, the array passed to the ingress of b holds at index
\* inv(d) the flow the egress of a returned at index d.
C2_FlowRoundTrip ==
    \A a \in Interior : \A d \in Dirs :
        LET b == Neighbour(a, d)
        IN  (b \in Interior /\ b \in DOMAIN ingressIn)
                => ingressIn[b][Inv(d, NeumannTotal)] = egressOut[a][d]

\* A step has completed on a grid in which every direction has an interior pair.
C2_Witness ==
    /\ pc = "idle" /\ steps = 1 /\ h >= 2 /\ w >= 2
    /\ DOMAIN ingressIn = Interior

\* C3: every diff computed in the current step is compute applied to the 3x3 block
\* around its cell, the cell at (1, 1), of the cells as they were when the step
\* began, and the compute pass writes no cell.
C3_ComputeReadsOldGrid ==
    /\ \A p \in ComputedDiffs : diffs[p] = Compute(sim, Around(cells0, p))
    /\ pc = "compute" => cells = cells0

\* Diffs are in use while egress has already written a cell.
C3_Witness == pc = "egress" /\ cur[1] >= 1 /\ w >= 2 /\ cells # cells0

\* C4: the blinker.  The 5x5 grid of gol_blinker holds the horizontal blinker
\* when built, the vertical blinker after one step_parallel and the horizontal
\* blinker again after two.
C4_Blinker ==
    pc = "idle" =>
        /\ steps = 0 => LiveCells = {<<2, 1>>, <<2, 2>>, <<2, 3>>}
        /\ steps = 1 => LiveCells = {<<1, 2>>, <<2, 2>>, <<3, 2>>}
        /\ steps = 2 => LiveCells = {<<2, 1>>, <<2, 2>>, <<2, 3>>}

\* The second step of the blinker has completed.
C4_Witness == pc = "idle" /\ steps = 2

\* C5: toroidal wrap, as claimed.  Every diff computed in the current step is
\* compute applied to the block found by modulo-indexed lookup: the neighbour of
\* interior cell (y, x) at offset (dy, dx) is interior cell
\* ((y + dy) mod H, (x + dx) mod W).
C5_ToroidalWrap ==
    \A p \in ComputedDiffs : diffs[p] = Compute(sim, AroundTorus(cells0, p))

\* C6: the smallest grid.  On a 1x1 grid no access of step_parallel is out of
\* bounds, the step is only ever aborted by a callback of the simulation, no flow
\* entry is consumed twice and after the step every one has been consumed; the
\* diff of the cell is compute applied to the cell surrounded by eight
\* cell_padding values, and its ingress receives eight flow_padding values.
C6_MinimumSize ==
    (pc # "off" /\ h = 1 /\ w = 1) =>
        /\ fault = "none"
        /\ pc = "aborted" => panicked # "none"
        /\ \A p \in DOMAIN consumed : consumed[p] # "double"
        /\ \A p \in ComputedDiffs :
              diffs[p] = Compute(sim,
                  [r \in 0 .. 2 |-> [q \in 0 .. 2 |->
                      IF r = 1 /\ q = 1 THEN orig[<<0, 0>>] ELSE CellPadding(sim)]])
        /\ (pc = "idle" /\ steps >= 1) =>
              /\ DOMAIN consumed = Pos(1, 1)
              /\ \A p \in DOMAIN consumed :
                    consumed[p] = IF p = <<1, 1>> THEN "taken" ELSE "dropped"
              /\ ingressIn = (<<1, 1>> :> [d \in Dirs |-> FlowPadding(sim)])

\* A step of a 1x1 grid has completed.
C6_Witness == h = 1 /\ w = 1 /\ pc = "idle" /\ steps = 1

\* C7: SquareGrid::new.  With a dimension below 1 no grid is created; otherwise
\* the grid is created with a padded array of (h + 2) x (w + 2) cells whose border
\* cells are cell_padding values and whose other cells are the given ones.
C7_New ==
    pc \notin {"off", "new"} =>
        IF h < 1 \/ w < 1
        THEN pc = "no_grid" /\ cells = NoArray
        ELSE /\ pc # "no_grid"
             /\ DOMAIN cells = (0 .. h + 1) \X (0 .. w + 1)
             /\ Cardinality(DOMAIN cells) = (h + 2) * (w + 2)
             /\ (pc = "idle" /\ steps = 0) =>
                   \A p \in DOMAIN cells :
                       cells[p] = IF p \in Interior
                                  THEN orig[<<p[1] - 1, p[2] - 1>>]
                                  ELSE CellPadding(sim)

\* new was called with a height of 0 and a positive width, and failed.
C7_Witness == pc = "no_grid" /\ h = 0 /\ w >= 1

\* C8: a failed callback.  Once a callback has panicked, the grid stays in the
\* pass of that callback until the step is aborted, the step never completes, and
\* when it is aborted the cells that the pass had written are not those the step
\* began with.
C8_CallbackFailure ==
    panicked # "none" =>
        /\ pc \in {panicked, "aborted"}
        /\ steps = 0
        /\ pc = "aborted" => \A p \in WrittenByFailedPass : cells[p] # cells0[p]

\* A step was aborted in its egress pass after some egress call had returned.
C8_Witness == pc = "aborted" /\ panicked = "egress" /\ DoneSlice # {}

\* C9: halo equivalence, as claimed.  Once the cycle of every tile is over
\* without a transport error, every tile holds its part of the cells that the
\* same logical grid holds after one cycle run as a single grid.
C9_HaloEquivalence ==
    (\A t \in Tiles : mstate[t] \notin {"sync_cells", "io_error"}) =>
        \A t \in Tiles : \A i \in DOMAIN mcells[t] :
            mcells[t][i]
                = LibCycle(LogicalCells, LogicalWidth, LogicalHeight)[LogicalIndex(t, i)]

\* C10: send before receive.  In the cell exchange of a tile no read of a channel
\* comes before a write, and when the tile is through its writes every one of
\* its eight out channels has been written.
C10_SendBeforeReceive ==
    \A t \in Tiles :
        /\ \A i \in DOMAIN mops[t] : \A j \in DOMAIN mops[t] :
              (i < j /\ mops[t][j][1] = "write") => mops[t][i][1] # "read"
        /\ mstate[t] = "panicked" => \A d \in Dirs : chan[<<t, d>>] # <<>>

\* A tile has written all its boundary cells and stands where it would receive.
C10_Witness ==
    \E t \in Tiles :
        /\ mstate[t] = "panicked"
        /\ Len(mops[t]) = 4 + 2 * (mw + mh)
        /\ mw >= 2

\* C11: no deadlock, as claimed.  The cycle of a tile is never over otherwise
\* than by returning: no tile stops inside its cell exchange once its writes
\* are done.
C11_NoDeadlock == \A t \in Tiles : mstate[t] # "panicked"

\* C12: halo receive, as claimed.  When the cell exchange of a tile is over
\* without a transport error, neighbor_cells of the tile holds for every
\* direction the cells the neighbouring tile in that direction has sent to it.
C12_HaloReceive ==
    \A t \in Tiles :
        mstate[t] = "panicked" =>
            \A d \in Dirs :
                mnbr[t][d] = chan[<<NeighbourTile(t, d), Inv(d, NeumannTotal)>>]

\* C13: outbound halo content.  What sync_cells has written to the out channel
\* of a direction is at any time the beginning of the boundary cells that face
\* the direction (right column from the top, top row from the left, left column
\* from the top, bottom row from the left, one corner cell per diagonal), and
\* all of them once its writes are done.
C13_OutboundContent ==
    \A t \in Tiles : \A d \in Dirs :
        /\ Len(chan[<<t, d>>]) <= BoundaryLen(mw, mh, d)
        /\ \A i \in 1 .. Len(chan[<<t, d>>]) :
              chan[<<t, d>>][i]
                  = <<"cell", LogicalIndex(t, BoundaryIndex(mw, mh, d, i))>>
        /\ mstate[t] = "panicked" => Len(chan[<<t, d>>]) = BoundaryLen(mw, mh, d)

\* A tile of at least 2 x 2 cells has written all its boundary cells.
C13_Witness ==
    \E t \in Tiles :
        /\ mstate[t] = "panicked"
        /\ mh >= 2 /\ mw >= 2
        /\ Len(chan[<<t, 0>>]) = mh /\ Len(chan[<<t, 6>>]) = mw

\* C14: transport failure.  A tile whose channel operation has failed has its
\* cells as they were built and its neighbor_cells empty, and from then on it
\* does no channel operation and changes nothing: cycle has returned the error.
C14_TransportFailure ==
    /\ [](\A t \in Tiles :
            mstate[t] = "io_error"
                => /\ mcells[t] = TileCells0(t)
                   /\ \A d \in Dirs : mnbr[t][d] = <<>>)
    /\ [][\A t \in Tiles :
            mstate[t] = "io_error"
                => /\ mstate'[t] = "io_error"
                   /\ mcells'[t] = mcells[t]
                   /\ mops'[t] = mops[t]
                   /\ mpos'[t] = mpos[t]
                   /\ \A d \in Dirs : chan'[<<t, d>>] = chan[<<t, d>>]]_vars

\* The cycle of a tile has failed after some of its writes had succeeded.
C14_Witness == \E t \in Tiles : mstate[t] = "io_error" /\ mpos[t] >= 1

\* C15: cycle and cycle_par.  Whichever of cycle and cycle_par each cycle was,
\* the cells after n cycles are those that n runs of the sequential cycle leave,
\* and a cycle that fails leaves the cells it found.
C15_CycleEqualsCyclePar ==
    gpc \in {"idle", "panicked"} => gcells = LibCycleN(LibCells0, gcycles)

\* A cycle followed by a cycle_par has completed on a grid of several cells.
C15_Witness ==
    /\ gpc = "idle" /\ gcycles = 2 /\ gw * gh >= 3
    /\ gmodes = {FALSE, TRUE}

\* C16: the cycle of lib.rs, as claimed.  A completed cycle replaces every cell
\* by the rule applied to the block of pre-cycle cells around it that
\* modulo-indexed lookup on both axes gives.
C16_CycleToroidal ==
    (gpc = "idle" /\ gcycles >= 1) => gcells = LibCycleTorus(gcells0, gw, gh)

\* C17: the Game-of-Life rule.  For every 3x3 block of booleans, GOL::rule and
\* Gol::compute return live exactly when the centre is live and 2 or 3 of its
\* eight neighbours are live, or the centre is dead and exactly 3 of them are.
C17_ConwayRule ==
    (fpc = "done" /\ fin.fn \in {"GOL::rule", "Gol::compute"}) =>
        fout.value = IF fin.block[1][1]
                     THEN LiveNeighbours(fin.block) \in {2, 3}
                     ELSE LiveNeighbours(fin.block) = 3

\* GOL::rule has returned live for a live centre with three live neighbours.
C17_Witness ==
    /\ fpc = "done" /\ fin.fn = "GOL::rule"
    /\ fin.block[1][1] /\ LiveNeighbours(fin.block) = 3
    /\ fout.value

\* C18: new_iter.  The call panics when the iterator yields fewer than
\* width * height items; otherwise the grid has the given width and height and
\* exactly width * height cells, the i-th cell being the i-th item.
C18_NewIter ==
    (fpc = "done" /\ fin.fn = "new_iter") =>
        IF Len(fin.items) < fin.width * fin.height
        THEN ~fout.ok
        ELSE /\ fout.ok
             /\ fout.value.width = fin.width
             /\ fout.value.height = fin.height
             /\ Len(fout.value.cells) = fin.width * fin.height
             /\ \A i \in 1 .. fin.width * fin.height :
                   fout.value.cells[i] = fin.items[i]

\* new_iter has returned a grid of several cells from an iterator of more items.
C18_Witness ==
    /\ fpc = "done" /\ fin.fn = "new_iter" /\ fout.ok
    /\ fin.width >= 2 /\ fin.height >= 2
    /\ Len(fin.items) > fin.width * fin.height

\* C19: from_iter, as claimed.  The call succeeds exactly when the sequence has
\* as many items as the neighbourhood has directions: with fewer or with more
\* items it fails.
C19_FromIterExact ==
    (fpc = "done" /\ fin.fn = "from_iter") =>
        (fout.ok <=> Len(fin.items) = fin.total)

\* C20: Neighborhood::new.  new(f) calls f once for each direction; the slot of
\* every direction d holds f(d); iter yields the slots and dir_iter the pairs of
\* a direction and its slot, in the order of the directions; and from_iter on
\* what iter yields gives the neighbourhood back.
C20_NeighborhoodNew ==
    (fpc = "done" /\ fin.fn = "new") =>
        LET n == fin.total
            nb == fout.value.nb
            calls == fout.value.calls
        IN  /\ \A d \in 0 .. n - 1 :
                  Cardinality({i \in DOMAIN calls : calls[i] = d}) = 1
            /\ Len(calls) = n
            /\ \A d \in 0 .. n - 1 : NbIndex(n, nb, d) = fin.f[d]
            /\ NbIter(n, nb) = [i \in 1 .. n |-> NbIndex(n, nb, i - 1)]
            /\ NbDirIter(n, nb) = [i \in 1 .. n |-> <<i - 1, NbIndex(n, nb, i - 1)>>]
            /\ NbFromIter(n, NbIter(n, nb)) = Return(nb)

\* A Neumann neighbourhood was built from an f that tells two diagonals apart.
C20_Witness ==
    /\ fpc = "done" /\ fin.fn = "new" /\ fin.total = NeumannTotal
    /\ fin.f[1] # fin.f[3]
    /\ fout.value.nb.up_right # fout.value.nb.up_left

\* C21: inv is an involution.  For every direction d of both sets, inv(d) is
\* the direction of index (index(d) + N/2) mod N, N being 4 for MooreDirection
\* and 8 for NeumannDirection, and inv(inv(d)) is d.
C21_InvInvolution ==
    Called("inv") =>
        /\ fout.ok
        /\ Into(fin.set, fout.value)
              = (Into(fin.set, fin.d) + ClaimedTotal(fin.set) \div 2)
                    % ClaimedTotal(fin.set)
        /\ DirInv(fin.set, fout.value) = Return(fin.d)

\* inv of a direction of the second half of the eight, where the index wraps.
C21_Witness == Called("inv") /\ fin.set = "Neumann" /\ fin.d = "DownLeft"

\* C22: the two turns.  For every direction d of both sets turn_clockwise gives
\* the direction of index - 1 and turn_counterclockwise that of index + 1,
\* modulo N; neither panics on an index out of 0 .. N-1, and each undoes the
\* other.
C22_Turns ==
    /\ Called("turn_clockwise") =>
          /\ fout.ok
          /\ Into(fin.set, fout.value)
                = (Into(fin.set, fin.d) - 1) % ClaimedTotal(fin.set)
          /\ TurnCounterclockwise(fin.set, fout.value) = Return(fin.d)
    /\ Called("turn_counterclockwise") =>
          /\ fout.ok
          /\ Into(fin.set, fout.value)
                = (Into(fin.set, fin.d) + 1) % ClaimedTotal(fin.set)
          /\ TurnClockwise(fin.set, fout.value) = Return(fin.d)

\* turn_clockwise of the direction of index 0, where index - 1 wraps to N - 1.
C22_Witness ==
    Called("turn_clockwise") /\ fin.d = "Right" /\ fout = Return("Down")

\* C23: offsets.  For every direction d of both sets delta(inv(d)) is the
\* negation of delta(d), and the offsets of all the directions of the set sum
\* to (0, 0).
C23_DeltaAntisymmetric ==
    Called("delta") =>
        /\ DirInv(fin.set, fin.d).ok
        /\ DirDelta(fin.set, DirInv(fin.set, fin.d).value)
              = <<0 - fout.value[1], 0 - fout.value[2]>>
        /\ DeltaSum(fin.set, Total(fin.set)) = <<0, 0>>

\* delta of a diagonal direction, both of whose components are negated by inv.
C23_Witness ==
    Called("delta") /\ fin.d = "UpRight" /\ fout = Return(<<1, -1>>)

\* C24: total and the conversions.  total() is the number of directions of the
\* enum (4 for MooreDirection, 8 for NeumannDirection) and is even; Into<usize>
\* maps the directions one to one onto 0 .. total()-1 and From<usize> is its
\* inverse there.
C24_TotalAndConversions ==
    /\ Called("total") =>
          /\ fout = Return(ClaimedTotal(fin.set))
          /\ fout.value = Cardinality(DirSet(fin.set))
          /\ fout.value % 2 = 0
    /\ Called("into") =>
          /\ fout.ok
          /\ fout.value \in 0 .. Total(fin.set) - 1
          /\ From(fin.set, fout.value) = Return(fin.d)
          /\ \A e \in DirSet(fin.set) :
                Into(fin.set, e) = fout.value => e = fin.d
    /\ (Called("from") /\ fin.n \in 0 .. Total(fin.set) - 1) =>
          /\ fout.ok
          /\ fout.value \in DirSet(fin.set)
          /\ Into(fin.set, fout.value) = fin.n

\* The last index of the eight is converted to its direction.
C24_Witness ==
    Called("from") /\ fin.set = "Neumann" /\ fin.n = 7 /\ fout = Return("DownRight")

\* C25: centered coordinates.  new_coord_map(width, height, f) makes a grid of
\* width * height cells whose cell of row-major index y * width + x is
\* f(x - width/2, y - height/2); new_true_coords(width, height, coords) makes
\* the grid that is true at the cells whose centered coordinate is among coords
\* and false at the others.
C25_CenteredCoordinates ==
    /\ Called("new_coord_map") =>
          /\ fout.ok
          /\ fout.value.width = fin.width /\ fout.value.height = fin.height
          /\ Len(fout.value.cells) = fin.width * fin.height
          /\ \A x \in 0 .. fin.width - 1, y \in 0 .. fin.height - 1 :
                fout.value.cells[y * fin.width + x + 1]
                    = <<"coord", x - fin.width \div 2, y - fin.height \div 2>>
    /\ Called("new_true_coords") =>
          /\ fout.ok
          /\ Len(fout.value.cells) = fin.width * fin.height
          /\ \A x \in 0 .. fin.width - 1, y \in 0 .. fin.height - 1 :
                fout.value.cells[y * fin.width + x + 1]
                    = (\E j \in DOMAIN fin.coords :
                          fin.coords[j]
                              = <<x - fin.width \div 2, y - fin.height \div 2>>)

\* new_true_coords was given the same coordinate of the grid twice.
C25_Witness ==
    /\ Called("new_true_coords")
    /\ fin.width = 3 /\ fin.height = 2
    /\ fin.coords = <<<<-1, 0>>, <<-1, 0>>>>
    /\ fout.value.cells = <<FALSE, FALSE, FALSE, TRUE, FALSE, FALSE>>

\* C26: phase ordering.  While compute calls run no egress, swap or ingress has
\* been made; while egress calls run every compute call of the step has returned
\* and no swap or ingress has been made; while the chunks of an exchange pass
\* run every egress call has returned, the passes before it are complete, and no
\* ingress has been made; while ingress calls run all four passes are complete.
C26_PhaseOrdering ==
    /\ pc = "compute" =>
          /\ egressOut = NoArray
          /\ ingressIn = NoArray
          /\ flows = NoArray
    /\ pc = "egress" =>
          /\ \A p \in Interior : diffs[p] = Compute(sim, Around(cells0, p))
          /\ flows = EgressedFlows
          /\ ingressIn = NoArray
    /\ pc = "exchange" =>
          /\ DOMAIN egressOut = Interior
          /\ flows = ExchangeItems(PassStart, 1)
          /\ ingressIn = NoArray
    /\ pc = "ingress" =>
          /\ DOMAIN egressOut = Interior
          /\ flows = ExchangeUpTo(EgressedFlows, 0, 1, 3)

\* The last exchange pass is under way, one of its chunks exchanged.
C26_Witness ==
    pc = "exchange" /\ pass = 3 /\ cur[1] + cur[2] = 1 /\ h = 2 /\ w = 3

\* C27: race freedom of the map passes.  In each of the compute, egress and
\* ingress passes the items belong to distinct positions, and at every moment
\* of the pass the locations that differ from what they held when the pass began
\* are those of the positions whose item has run (its diff; its cell and its
\* array of flows; its cell), each holding what the callback makes from values
\* no item of the pass writes: the cells of the old grid; the cell's own old
\* value and the diffs; the cell's own value and its own array of flows.
C27_RaceFreedom ==
    /\ pc \in {"compute", "egress", "ingress"} =>
          \A i \in 1 .. NumItems : \A j \in 1 .. NumItems :
              i # j => ItemPos(i) # ItemPos(j)
    /\ pc = "compute" =>
          /\ cells = cells0
          /\ \A p \in DOMAIN diffs :
                diffs[p] = IF p \in DonePos
                           THEN Compute(sim, Around(cells0, p))
                           ELSE DiffPadding(sim)
    /\ pc = "egress" =>
          /\ DonePos \subseteq Interior
          /\ diffs = SeqDiffs(cells0)
          /\ \A p \in DOMAIN cells :
                /\ cells[p] = IF p \in DonePos
                              THEN Egress(sim, cells0[p], Around(diffs, p)).cell
                              ELSE cells0[p]
                /\ flows[p] = IF p \in DonePos
                              THEN Egress(sim, cells0[p], Around(diffs, p)).flows
                              ELSE [d \in Dirs |-> FlowPadding(sim)]
    /\ pc = "ingress" =>
          \A p \in DOMAIN cells :
              cells[p] = IF p \in Interior
                         THEN IF p \in DonePos
                              THEN Ingress(sim,
                                       Egress(sim, cells0[p], Around(diffs, p)).cell,
                                       flows[p])
                              ELSE Egress(sim, cells0[p], Around(diffs, p)).cell
                         ELSE cells0[p]

\* Both workers are in the middle of their slices of the egress pass.
C27_Witness ==
    /\ pc = "egress" /\ panicked = "none"
    /\ cur[1] >= 1 /\ cur[2] >= 1 /\ HasItem(1) /\ HasItem(2)

\* C28: the chunks of one exchange pass are disjoint.  No position of the padded
\* flow array belongs to two chunks of the pass, every chunk lies within the
\* array, and at every moment of the pass the flows of a chunk are those the
\* exchange of that chunk alone makes of the flows the pass began with, or, if
\* the chunk has not been run, those flows themselves.
C28_ChunksDisjoint ==
    pc = "exchange" =>
        /\ \A i \in 1 .. NumItems : \A j \in 1 .. NumItems :
              i # j => ChunkCells(ChunkCorner(h, w, pass, i))
                           \cap ChunkCells(ChunkCorner(h, w, pass, j)) = {}
        /\ \A i \in 1 .. NumItems :
              LET tl == ChunkCorner(h, w, pass, i)
              IN  /\ ChunkCells(tl) \subseteq DOMAIN flows
                  /\ \A q \in ChunkCells(tl) :
                        flows[q] = IF i \in DoneItems
                                   THEN ExchangeChunk(PassStart, tl)[q]
                                   ELSE PassStart[q]

\* Both workers have exchanged a chunk of the same pass.
C28_Witness == pc = "exchange" /\ cur[1] >= 1 /\ cur[2] >= 1

\* C29: every flow slot of an interior cell is swapped exactly once.  At every
\* moment of the exchange no slot has taken part in two of the swaps made so far,
\* and each of the 8 slots of each interior cell holds the flow its own egress
\* stored there if it has taken part in none and the flow stored in the opposite
\* slot of the neighbouring position if it has; when the four passes are over
\* every one of them has taken part in a swap.
C29_SwappedOnce ==
    pc \in {"exchange", "ingress"} =>
        LET sw == SwappedSlots
            touched == {e[2] : e \in sw}
            ef == EgressedFlows
        IN  /\ Cardinality(touched) = Cardinality(sw)
            /\ \A p \in Interior : \A j \in Dirs :
                  /\ pc = "ingress" => <<p, j>> \in touched
                  /\ flows[p][j] = IF <<p, j>> \in touched
                                   THEN ef[Neighbour(p, j)][Inv(j, NeumannTotal)]
                                   ELSE ef[p][j]

\* The four passes are over on a grid of odd height and odd width.
C29_Witness == pc = "ingress" /\ h = 1 /\ w = 3 /\ cur[1] + cur[2] = 0

C34_DeltaIndexToroidal ==
    (/\ Called("grid::delta_index")
     /\ 0 - fin.width < fin.delta[1] /\ fin.delta[1] < fin.width
     /\ 0 - fin.height < fin.delta[2] /\ fin.delta[2] < fin.height) =>
        /\ fout = Return((((fin.i % fin.width) + fin.delta[1]) % fin.width)
                         + (((fin.i \div fin.width) + fin.delta[2]) % fin.height)
                               * fin.width)
        /\ fout.value \in 0 .. fin.width * fin.height - 1
        /\ \A j \in 0 .. fin.width * fin.height - 1 :
              GridDeltaIndex(fin.width, fin.height, j, fin.delta) = fout.value
                  => j = fin.i

\* The first cell of a row is offset to the left and upwards: both coordinates
\* wrap.
C34_Witness ==
    /\ Called("grid::delta_index")
    /\ fin.width = 3 /\ fin.height = 2 /\ fin.i = 0 /\ fin.delta = <<-1, -1>>
    /\ fout = Return(5)

\* C35: the two delta_index agree, as claimed.  For every unit delta the
\* delta_index of multigrid.rs gives the index the delta_index of grid.rs gives,
\* which is the toroidal neighbour.
C35_DeltaIndexAgree ==
    (/\ Called("multigrid::delta_index")
     /\ fin.delta[1] \in -1 .. 1 /\ fin.delta[2] \in -1 .. 1) =>
        /\ fout = Return(GridDeltaIndex(fin.width, fin.height, fin.i, fin.delta))
        /\ fout = Return((((fin.i % fin.width) + fin.delta[1]) % fin.width)
                         + (((fin.i \div fin.width) + fin.delta[2]) % fin.height)
                               * fin.width)

\* C36: get_cell_at, as claimed.  For every column x and row y of the grid
\* get_cell_at(x, y) and get_cell_at_mut(x, y) are the cell get_cell gives for
\* y * width + x, and do not panic.
C36_GetCellAt ==
    (fpc = "done" /\ fin.fn \in {"get_cell_at", "get_cell_at_mut"}) =>
        /\ fout.ok
        /\ fout = GetCell(GridCells(fin.width, fin.height), fin.y * fin.width + fin.x)

\* C37: the index expressions of step and step_par, as claimed.  On a grid with
\* width >= 1 and height >= 1 none of the sums size + i, then minus or plus 1,
\* then minus or plus width, taken left to right, is below zero for any cell,
\* and no cycle fails.
C37_IndexNeverNegative ==
    (gw >= 1 /\ gh >= 1) =>
        /\ gpc # "panicked"
        /\ gpc = "step" =>
              \A i \in 0 .. gw * gh - 1 : ~BlockUnderflows(gw * gh, gw, i)

\* C32: the padding is never written.  Once the grid is built its array is
\* (h + 2) x (w + 2) and every cell outside the interior is cell_padding, in
\* every state of every step.
C32_PaddingPreserved ==
    cells # NoArray =>
        /\ DOMAIN cells = Pos(h, w)
        /\ \A p \in Pos(h, w) \ Interior : cells[p] = CellPadding(sim)

\* A step has returned that has written every interior cell.
C32_Witness ==
    /\ pc = "idle" /\ steps = 1 /\ h = 2 /\ w = 3
    /\ \A p \in Interior : cells[p] # cells0[p]

\* C33: boundary flows.  The array passed to the ingress of an interior cell
\* holds flow_padding at every index d whose neighbour in direction d is
\* padding; a flow that an egress emitted toward padding is in no array passed
\* to an ingress: in the ingress pass it lies in the flows of that padding
\* position, and when the step returns they have been dropped.
C33_BoundaryFlows ==
    /\ \A p \in DOMAIN ingressIn : \A j \in Dirs :
          Neighbour(p, j) \notin Interior => ingressIn[p][j] = FlowPadding(sim)
    /\ LET passed == {ingressIn[p][j] : p \in DOMAIN ingressIn, j \in Dirs}
       IN  \A a \in DOMAIN egressOut : \A d \in Dirs :
              LET b == Neighbour(a, d)
              IN  b \notin Interior =>
                     /\ egressOut[a][d] \notin passed
                     /\ pc = "ingress" =>
                           flows[b][Inv(d, NeumannTotal)] = egressOut[a][d]
                     /\ (pc = "idle" /\ steps >= 1) => consumed[b] = "dropped"

\* A step has returned on a grid whose first cell has padding on five sides and
\* interior cells on three.
C33_Witness ==
    /\ pc = "idle" /\ steps = 1 /\ h = 2 /\ w = 3
    /\ ingressIn[<<1, 1>>][2] = FlowPadding(sim)
    /\ ingressIn[<<1, 1>>][0] = egressOut[<<1, 2>>][4]

\* C38: the view of cells and cells_mut.  The view is h x w; after
\* SquareGrid::new it equals the cells supplied; in every state its entry (y, x)
\* is entry (y + 1, x + 1) of the padded array, the entries it covers are the
\* interior, and a write through cells_mut changes that one entry of the view
\* and nothing of the padding.
C38_CellsView ==
    cells # NoArray =>
        LET view == Slice(cells, Dim)
        IN  /\ DOMAIN view = (0 .. h - 1) \X (0 .. w - 1)
            /\ (pc = "idle" /\ steps = 0) => view = orig
            /\ \A p \in DOMAIN view : view[p] = cells[<<p[1] + 1, p[2] + 1>>]
            /\ \A p \in DOMAIN view :
                  LET written == SliceMutWrite(cells, p, <<"written">>)
                  IN  /\ Slice(written, Dim) = [view EXCEPT ![p] = <<"written">>]
                      /\ \A q \in Pos(h, w) \ Interior : written[q] = cells[q]

\* A grid of two rows and three columns has been built.
C38_Witness ==
    /\ pc = "idle" /\ steps = 0 /\ h = 2 /\ w = 3
    /\ Slice(cells, Dim)[<<1, 2>>] = orig[<<1, 2>>]

\* C31: moves and diffs are taken exactly once.  In the update of the
\* SquareGrid of grid.rs with MooreNeighbors no diff and no move slot is ever
\* taken twice; while the update runs, those taken are the diffs of the cells
\* updated and four move slots for each of them; when the cycle returns every
\* diff and every move slot has been taken; and the move delivered to cell ix
\* for direction d, like the diff, is the one that the cell at
\* delta_index(ix, delta(d)) emitted toward inv(d) in the step of this cycle.
C31_MovesTakenOnce ==
    /\ \A s \in DOMAIN consumed : consumed[s] # "double"
    /\ gpc = "update" =>
          /\ DOMAIN consumed
                 = {<<"diff", i>> : i \in 0 .. gw * gh - 1}
                       \cup {<<"move", <<i, n>>>> : i \in 0 .. gw * gh - 1, n \in 0 .. 3}
          /\ \A ix \in 0 .. gw * gh - 1 :
                consumed[<<"diff", ix>>]
                    = IF ix + 1 \in DoneItems THEN "taken" ELSE "live"
          /\ Cardinality({s \in DOMAIN consumed : consumed[s] = "taken"})
                 = 5 * Cardinality(DoneItems)
          /\ \A ix \in 0 .. gw * gh - 1 :
                ix + 1 \in DoneItems =>
                    /\ gcells[ix][1] = "update"
                    /\ gcells[ix][2] = gcells0[ix]
                    /\ gcells[ix][3] = gdiffs[ix].diff
                    /\ gdiffs[ix].diff[2] = gcells0[ix]
                    /\ \A n \in 0 .. 3 :
                          LET from == GridDeltaIndex(gw, gh, ix, MooreDelta(MooreDir(n)))
                              move == MooreIndex(gcells[ix][4], n)
                          IN  /\ move = MooreIndex(gdiffs[from].moves,
                                                   Inv(n, MooreTotal))
                              /\ move[2] = Inv(n, MooreTotal)
                              /\ move[3] = gcells0[from]
    /\ (gpc = "idle" /\ gcycles >= 1) =>
          /\ Cardinality(DOMAIN consumed) = 5 * gw * gh
          /\ \A s \in DOMAIN consumed : consumed[s] = "taken"

\* A cycle has returned on a grid of one column and two rows whose second cell
\* was updated before the first: the first cell is its own neighbour to the
\* right and to the left.
C31_Witness ==
    /\ gpc = "idle" /\ gcycles = 1 /\ gw = 1 /\ gh = 2 /\ reordered
    /\ consumed[<<"move", <<0, 2>>>>] = "taken"
    /\ MooreIndex(gcells[0][4], 0)[3] = gcells0[0]

====
